---- MODULE Spec2Model ----
(***************************************************************************)
(* Model of the NCC assistant's quiz pipeline:                             *)
(*   - the free-text quiz response parser of utils.py and of               *)
(*     interface/quiz_interface.py (QuizInterface),                        *)
(*   - the function-based quiz page of quiz_interface.py,                  *)
(*   - the class-based quiz page QuizInterface,                            *)
(*   - quiz scoring.                                                       *)
(* Text is a sequence of one-character strings, so that splitting,         *)
(* stripping, upper-casing and regular-expression matching are computed    *)
(* the way the Python code computes them.                                  *)
(***************************************************************************)
EXTENDS Integers, Sequences, FiniteSets, TLC

(***************************************************************************)
(* Bounds of the model.                                                    *)
(***************************************************************************)
MaxLines == 3

(***************************************************************************)
(* Characters and strings (Python str).                                    *)
(***************************************************************************)
LowerLetters == <<"a","b","c","d","e","f","g","h","i","j","k","l","m",
                  "n","o","p","q","r","s","t","u","v","w","x","y","z">>

UpperLetters == <<"A","B","C","D","E","F","G","H","I","J","K","L","M",
                  "N","O","P","Q","R","S","T","U","V","W","X","Y","Z">>

Digits == {"0","1","2","3","4","5","6","7","8","9"}

Whitespace == {" ", "\n", "\t"}

\* str.upper() on one character
UpperChar(c) ==
    IF \E i \in 1..26 : LowerLetters[i] = c
    THEN UpperLetters[CHOOSE i \in 1..26 : LowerLetters[i] = c]
    ELSE c

\* str.upper()
Upper(s) == [i \in 1..Len(s) |-> UpperChar(s[i])]

\* s[i:] with a 0-based Python index i >= 0
From(s, i) == SubSeq(s, i + 1, Len(s))

\* str.strip()
Strip(s) ==
    LET nonws == {i \in 1..Len(s) : s[i] \notin Whitespace}
    IN  IF nonws = {} THEN <<>>
        ELSE LET lo == CHOOSE i \in nonws : \A j \in nonws : i <= j
                 hi == CHOOSE i \in nonws : \A j \in nonws : i >= j
             IN  SubSeq(s, lo, hi)

\* the literal p occurs in s at the 1-based position i
LitAt(s, p, i) ==
    /\ i >= 1
    /\ i + Len(p) - 1 <= Len(s)
    /\ SubSeq(s, i, i + Len(p) - 1) = p

\* str.startswith
StartsWith(s, p) == LitAt(s, p, 1)

\* p in s
Contains(s, p) == \E i \in 1..Len(s) : LitAt(s, p, i)

\* str.find(p) + 1: the 1-based position of the first occurrence, 0 if none
Find(s, p) ==
    IF Contains(s, p)
    THEN CHOOSE i \in 1..Len(s) : LitAt(s, p, i) /\ \A j \in 1..(i-1) : ~LitAt(s, p, j)
    ELSE 0

\* line[line.find(':') + 1:].strip()
AfterColon(line) == Strip(From(line, Find(line, <<":">>)))

\* the position after the longest run of digits that starts at position i
RECURSIVE SkipDigits(_, _)
SkipDigits(s, i) ==
    IF i <= Len(s) /\ s[i] \in Digits THEN SkipDigits(s, i + 1) ELSE i

(***************************************************************************)
(* The split patterns.  MatchEnd(pat, s, i) is the position of the last    *)
(* character of the match of pat that starts at position i of s, 0 when    *)
(* pat does not match there.                                               *)
(***************************************************************************)
PatQ         == 1   \* r'Q\d*:'
PatQuestion  == 2   \* r'Question \d+:'
PatSeparator == 3   \* '---'
PatBlank     == 4   \* '\n\n'
PatQIMarker  == 5   \* r'QUESTION \d+:' with re.IGNORECASE
PatNewline   == 6   \* '\n' of str.split

\* the patterns tried from the blank line up
patterns_blank_first == <<PatBlank, PatSeparator, PatQuestion, PatQ>>

patterns == <<PatQ, PatQuestion, PatSeparator, PatBlank>>

WordQuestion == <<"Q","u","e","s","t","i","o","n"," ">>

MatchEnd(pat, s, i) ==
    CASE pat = PatQ ->
           IF LitAt(s, <<"Q">>, i)
           THEN LET j == SkipDigits(s, i + 1)
                IN  IF j <= Len(s) /\ s[j] = ":" THEN j ELSE 0
           ELSE 0
      [] pat = PatQuestion ->
           IF LitAt(s, WordQuestion, i)
           THEN LET k == i + Len(WordQuestion)
                    j == SkipDigits(s, k)
                IN  IF j > k /\ j <= Len(s) /\ s[j] = ":" THEN j ELSE 0
           ELSE 0
      [] pat = PatSeparator ->
           IF LitAt(s, <<"-","-","-">>, i) THEN i + 2 ELSE 0
      [] pat = PatBlank ->
           IF LitAt(s, <<"\n","\n">>, i) THEN i + 1 ELSE 0
      [] pat = PatQIMarker ->
           IF /\ i >= 1
              /\ i + Len(WordQuestion) - 1 <= Len(s)
              /\ Upper(SubSeq(s, i, i + Len(WordQuestion) - 1)) = Upper(WordQuestion)
           THEN LET k == i + Len(WordQuestion)
                    j == SkipDigits(s, k)
                IN  IF j > k /\ j <= Len(s) /\ s[j] = ":" THEN j ELSE 0
           ELSE 0
      [] pat = PatNewline ->
           IF LitAt(s, <<"\n">>, i) THEN i ELSE 0

\* the position of the leftmost match of pat in s at or after position i,
\* 0 when there is none
NextMatch(pat, s, i) ==
    LET hits == {j \in i..Len(s) : MatchEnd(pat, s, j) > 0}
    IN  IF hits = {} THEN 0
        ELSE CHOOSE j \in hits : \A k \in hits : j <= k

\* re.split(pat, s): the pieces between the leftmost non-overlapping matches
RECURSIVE SplitFrom(_, _, _)
SplitFrom(pat, s, start) ==
    LET j == NextMatch(pat, s, start)
    IN  IF j = 0 THEN << SubSeq(s, start, Len(s)) >>
        ELSE << SubSeq(s, start, j - 1) >> \o SplitFrom(pat, s, MatchEnd(pat, s, j) + 1)

ReSplit(pat, s) == SplitFrom(pat, s, 1)

\* str.split('\n')
SplitNewline(s) == ReSplit(PatNewline, s)

\* [x.strip() for x in pieces if x.strip()]
RECURSIVE StripNonEmpty(_)
StripNonEmpty(pieces) ==
    IF pieces = <<>> THEN <<>>
    ELSE LET h == Strip(Head(pieces))
         IN  (IF h = <<>> THEN <<>> ELSE <<h>>) \o StripNonEmpty(Tail(pieces))

\* [line.strip() for line in text.split('\n') if line.strip()]
LinesOf(text) == StripNonEmpty(SplitNewline(text))

\* '\n'.join(lines)
RECURSIVE Join(_)
Join(lines) ==
    IF lines = <<>> THEN <<>>
    ELSE IF Len(lines) = 1 THEN lines[1]
    ELSE lines[1] \o <<"\n">> \o Join(Tail(lines))

(***************************************************************************)
(* A Python dict as the sequence of its items in insertion order.          *)
(***************************************************************************)
Keys(d) == {d[i].key : i \in 1..Len(d)}

HasKey(d, k) == k \in Keys(d)

Get(d, k) == d[CHOOSE i \in 1..Len(d) : d[i].key = k].val

\* d[k] = v
Put(d, k, v) ==
    IF HasKey(d, k)
    THEN LET i == CHOOSE j \in 1..Len(d) : d[j].key = k
         IN  SubSeq(d, 1, i - 1) \o << [key |-> k, val |-> v] >> \o SubSeq(d, i + 1, Len(d))
    ELSE Append(d, [key |-> k, val |-> v])

OptionLetters == {"A", "B", "C", "D"}

(***************************************************************************)
(* utils.parse_single_question                                             *)
(***************************************************************************)
EmptyQuestionData ==
    [question |-> <<>>, options |-> <<>>, answer |-> <<>>, explanation |-> <<>>,
     current_option |-> <<>>]

\* re.match(r'^[A-D][\)\.]', line_upper)
IsOptionLine(line) ==
    /\ Len(line) >= 2
    /\ Upper(line)[1] \in OptionLetters
    /\ line[2] \in {")", "."}

\* re.search(r'[A-D]', line_upper): the first such character, <<>> when none
SearchLetter(line) ==
    LET u    == Upper(line)
        hits == {i \in 1..Len(u) : u[i] \in OptionLetters}
    IN  IF hits = {} THEN <<>>
        ELSE << u[CHOOSE i \in hits : \A j \in hits : i <= j] >>

IsQuestionLine(line) ==
    \/ StartsWith(Upper(line), <<"Q",":">>)
    \/ StartsWith(Upper(line), <<"Q","U","E","S","T","I","O","N">>)

IsAnswerLine(line) ==
    \/ Contains(Upper(line), <<"A","N","S","W","E","R",":">>)
    \/ Contains(Upper(line), <<"C","O","R","R","E","C","T"," ","A","N","S","W","E","R",":">>)

IsExplanationLine(line) ==
    \/ StartsWith(Upper(line), <<"E","X","P","L","A","N","A","T","I","O","N",":">>)
    \/ StartsWith(Upper(line), <<"E","X","P","L","A","N","A","T","I","O","N">>)
    \/ StartsWith(Upper(line), <<"N","O","T","E",":">>)

\* the iteration with the continuation text appended without the space
ParseLineNoSpace(qd, line) ==
    IF IsQuestionLine(line)
    THEN [qd EXCEPT !.question = AfterColon(line)]
    ELSE IF IsOptionLine(line)
    THEN [qd EXCEPT !.options = Put(qd.options, Upper(line)[1], Strip(From(line, 2))),
                    !.current_option = << Upper(line)[1] >>]
    ELSE IF IsAnswerLine(line)
    THEN IF SearchLetter(line) # <<>>
         THEN [qd EXCEPT !.answer = SearchLetter(line)]
         ELSE qd
    ELSE IF IsExplanationLine(line)
    THEN [qd EXCEPT !.explanation = AfterColon(line)]
    ELSE IF qd.current_option # <<>> /\ HasKey(qd.options, qd.current_option[1])
    THEN [qd EXCEPT !.options =
             Put(qd.options, qd.current_option[1],
                 Get(qd.options, qd.current_option[1]) \o Strip(line))]
    ELSE qd

\* one iteration of the loop over the lines of a block; the letter of an
\* option is a one-character string, `answer' and `current_option' are
\* strings (sequences) as in the code, empty when unset
ParseLine(qd, line) ==
    IF IsQuestionLine(line)
    THEN [qd EXCEPT !.question = AfterColon(line)]
    ELSE IF IsOptionLine(line)
    THEN [qd EXCEPT !.options = Put(qd.options, Upper(line)[1], Strip(From(line, 2))),
                    !.current_option = << Upper(line)[1] >>]
    ELSE IF IsAnswerLine(line)
    THEN IF SearchLetter(line) # <<>>
         THEN [qd EXCEPT !.answer = SearchLetter(line)]
         ELSE qd
    ELSE IF IsExplanationLine(line)
    THEN [qd EXCEPT !.explanation = AfterColon(line)]
    ELSE IF qd.current_option # <<>> /\ HasKey(qd.options, qd.current_option[1])
    THEN [qd EXCEPT !.options =
             Put(qd.options, qd.current_option[1],
                 Get(qd.options, qd.current_option[1]) \o <<" ">> \o Strip(line))]
    ELSE qd

RECURSIVE ParseLines(_, _)
ParseLines(qd, lines) ==
    IF lines = <<>> THEN qd
    ELSE ParseLines(ParseLine(qd, Head(lines)), Tail(lines))

\* question_data as returned: the dict without the loop variable
QuestionDict(qd) ==
    [question |-> qd.question, options |-> qd.options, answer |-> qd.answer,
     explanation |-> qd.explanation]

\* answer in options, for the string `answer'
AnswerInOptions(answer, options) ==
    Len(answer) = 1 /\ HasKey(options, answer[1])

\* the result is <<>> for None and <<question_data>> otherwise
parse_single_question(question_text) ==
    LET lines == LinesOf(question_text)
        qd    == ParseLines(EmptyQuestionData, lines)
    IN  IF /\ qd.question # <<>>
           /\ Len(qd.options) >= 2
           /\ AnswerInOptions(qd.answer, qd.options)
        THEN << QuestionDict(qd) >>
        ELSE IF qd.question = <<>> /\ lines # <<>>
        THEN IF lines[1] # <<>> /\ Len(qd.options) >= 2
             THEN << QuestionDict([qd EXCEPT !.question = lines[1]]) >>
             ELSE <<>>
        ELSE <<>>

(***************************************************************************)
(* utils.parse_quiz_response                                               *)
(***************************************************************************)
\* [b.strip() for b in re.split(pattern, response_text) if b.strip()]
SplitBlocks(pat, response_text) == StripNonEmpty(ReSplit(pat, response_text))

\* the for/else loop over the patterns, from the pattern of index k on
RECURSIVE TryPatterns(_, _)
TryPatterns(response_text, k) ==
    IF k > Len(patterns) THEN << response_text >>
    ELSE LET blocks == SplitBlocks(patterns[k], response_text)
         IN  IF Len(blocks) > 1 THEN blocks
             ELSE TryPatterns(response_text, k + 1)

question_blocks_of(response_text) == TryPatterns(response_text, 1)

\* one iteration of the loop over the blocks: block.strip(), skipped when
\* empty, else the question of the block when it is not None
ParseBlock(block) ==
    IF Strip(block) = <<>> THEN <<>> ELSE parse_single_question(Strip(block))

\* the loop over the blocks
RECURSIVE ParseBlocks(_)
ParseBlocks(blocks) ==
    IF blocks = <<>> THEN <<>>
    ELSE ParseBlock(Head(blocks)) \o ParseBlocks(Tail(blocks))

parse_quiz_response(response_text) ==
    ParseBlocks(question_blocks_of(response_text))

(***************************************************************************)
(* QuizInterface._parse_single_question_block and _parse_ai_response       *)
(***************************************************************************)
EmptyBlockData ==
    [question |-> <<>>, options |-> <<>>, correct_answer |-> <<>>, explanation |-> <<>>]

\* re.match(r'^[A-D]\)', line_upper)
QIIsOptionLine(line) ==
    /\ Len(line) >= 2
    /\ Upper(line)[1] \in OptionLetters
    /\ line[2] = ")"

QIParseLine(qd, line) ==
    IF StartsWith(Upper(line), <<"Q",":">>)
    THEN [qd EXCEPT !.question = Strip(From(line, 2))]
    ELSE IF QIIsOptionLine(line)
    THEN [qd EXCEPT !.options = Put(qd.options, UpperChar(line[1]), Strip(From(line, 2)))]
    ELSE IF StartsWith(Upper(line), <<"A","N","S","W","E","R",":">>)
    THEN IF SearchLetter(line) # <<>>
         THEN [qd EXCEPT !.correct_answer = SearchLetter(line)]
         ELSE qd
    ELSE IF StartsWith(Upper(line), <<"E","X","P","L","A","N","A","T","I","O","N",":">>)
    THEN [qd EXCEPT !.explanation = Strip(From(line, 12))]
    ELSE qd

RECURSIVE QIParseLines(_, _)
QIParseLines(qd, lines) ==
    IF lines = <<>> THEN qd
    ELSE QIParseLines(QIParseLine(qd, Head(lines)), Tail(lines))

\* the result is <<>> for None and <<QuizQuestion>> otherwise
parse_single_question_block(block) ==
    LET qd == QIParseLines(EmptyBlockData, LinesOf(block))
    IN  IF /\ qd.question # <<>>
           /\ Len(qd.options) = 4
           /\ qd.correct_answer # <<>>
           /\ AnswerInOptions(qd.correct_answer, qd.options)
        THEN << qd >>
        ELSE <<>>

\* [x.strip() for x in pieces]
RECURSIVE StripEach(_)
StripEach(pieces) ==
    IF pieces = <<>> THEN <<>>
    ELSE << Strip(Head(pieces)) >> \o StripEach(Tail(pieces))

\* question_blocks[1:], each block stripped
QIBlocks(response) == StripEach(Tail(ReSplit(PatQIMarker, response)))

RECURSIVE QIParseBlocks(_)
QIParseBlocks(blocks) ==
    IF blocks = <<>> THEN <<>>
    ELSE parse_single_question_block(Head(blocks)) \o QIParseBlocks(Tail(blocks))

parse_ai_response(response) == QIParseBlocks(QIBlocks(response))

(***************************************************************************)
(* Response texts.  A response is made of lines; the lines cover every     *)
(* kind of line the parsers distinguish and every split pattern.           *)
(***************************************************************************)
LineQ         == <<"Q",":"," ","x">>
LineMarker(n) == <<"Q","U","E","S","T","I","O","N"," ",n,":">>
LineQuestionN == <<"Q","u","e","s","t","i","o","n"," ","2",":"," ","x">>
LineA         == <<"A",")"," ","x">>
LineB         == <<"b","."," ","y">>
LineBParen    == <<"B",")"," ","y">>
LineC         == <<"C",")"," ","z">>
LineD         == <<"D",")"," ","w">>
LineAnswerD   == <<"A","N","S","W","E","R",":"," ","D">>
LineAnswerB   == <<"A","N","S","W","E","R",":"," ","B">>
LineExplain   == <<"E","X","P","L","A","N","A","T","I","O","N",":"," ","e">>
LineSeparator == <<"-","-","-">>
LineEmpty     == <<>>
LineText      == <<"x">>

LineLib ==
    {LineQ, LineMarker("1"), LineQuestionN, LineA, LineB, LineAnswerD,
     LineSeparator, LineEmpty, LineText}

\* every response of at most MaxLines lines of LineLib
LineResponses ==
    {Join(ls) : ls \in UNION {[1..n -> LineLib] : n \in 1..MaxLines}}

\* the bodies of the blocks of a response with QUESTION n: markers
BlockBodies ==
    { <<LineText>>, <<LineQ, LineA>>, <<LineText, LineEmpty>> }

\* three question blocks introduced by QUESTION 1:, QUESTION 2:, QUESTION 3:
ThreeBlockResponses ==
    {Join(<<LineMarker("1")>> \o b1 \o <<LineMarker("2")>> \o b2 \o
          <<LineMarker("3")>> \o b3) : b1 \in BlockBodies, b2 \in BlockBodies, b3 \in BlockBodies}

\* a question in the format the prompt of utils.generate_quiz_questions asks for
PromptBlock(answerLine) ==
    <<LineQ, LineA, LineBParen, LineC, LineD, answerLine, LineExplain>>

\* two questions in the format of utils.generate_quiz_questions, '---' between
ResponseUtilsFormat ==
    Join(PromptBlock(LineAnswerB) \o <<LineEmpty, LineSeparator, LineEmpty>> \o
         PromptBlock(LineAnswerD))

\* two questions in the format of QuizInterface._create_question_generation_prompt
ResponseQIFormat ==
    Join(<<LineMarker("1")>> \o PromptBlock(LineAnswerB) \o <<LineEmpty>> \o
         <<LineMarker("2")>> \o PromptBlock(LineAnswerD))

\* five blocks in the format of QuizInterface, one of them without options
ResponseQIFive ==
    Join(<<LineMarker("1")>> \o PromptBlock(LineAnswerB) \o
         <<LineMarker("2")>> \o <<LineQ, LineAnswerB>> \o
         <<LineMarker("3")>> \o PromptBlock(LineAnswerD) \o
         <<LineMarker("4")>> \o PromptBlock(LineAnswerB) \o
         <<LineMarker("5")>> \o PromptBlock(LineAnswerD))

\* three questions in the format of utils.generate_quiz_questions
ResponseUtilsThree ==
    Join(PromptBlock(LineAnswerB) \o <<LineEmpty, LineSeparator, LineEmpty>> \o
         PromptBlock(LineAnswerD) \o <<LineEmpty, LineSeparator, LineEmpty>> \o
         PromptBlock(LineAnswerB))

\* three questions in the format of QuizInterface
ResponseQIThree ==
    Join(<<LineMarker("1")>> \o PromptBlock(LineAnswerB) \o <<LineEmpty>> \o
         <<LineMarker("2")>> \o PromptBlock(LineAnswerD) \o <<LineEmpty>> \o
         <<LineMarker("3")>> \o PromptBlock(LineAnswerB))

\* a question with two options only
ResponseTwoOptions == Join(<<LineQ, LineA, LineBParen, LineAnswerB>>)

\* a response without any question
ResponseNoQuestion == Join(<<LineText, LineText>>)

ModelResponses ==
    {ResponseUtilsFormat, ResponseQIFormat, ResponseQIFive, ResponseTwoOptions,
     ResponseNoQuestion, ResponseUtilsThree, ResponseQIThree}

\* a question line, the options A and B, and an answer line naming D
BlockAnswerAbsent == Join(<<LineQ, LineA, LineB, LineAnswerD>>)

\* a block of the two options B and C whose answer line names B
BlockOptionsBC == Join(<<LineQ, LineBParen, LineC, LineAnswerB>>)

\* two questions in the format of utils.generate_quiz_questions with a
\* malformed block, a line of text, between them
ResponseMalformedBetween ==
    Join(PromptBlock(LineAnswerB) \o <<LineSeparator, LineText, LineSeparator>> \o
         PromptBlock(LineAnswerD))

\* a block with a line of text before its first option and one after its
\* option A
BlockContinuation ==
    Join(<<LineText, LineQ, LineA, LineText, LineBParen, LineAnswerB, LineExplain>>)

\* valid questions: the text x, the first n of the options A) x, B) y, C) z,
\* D) w, one of their letters as the answer, the explanation e
SampleOptions == <<[key |-> "A", val |-> <<"x">>], [key |-> "B", val |-> <<"y">>],
                   [key |-> "C", val |-> <<"z">>], [key |-> "D", val |-> <<"w">>]>>

SampleQuestions ==
    UNION {{[question |-> <<"x">>, options |-> SubSeq(SampleOptions, 1, n),
             answer |-> << SampleOptions[a].key >>, explanation |-> <<"e">>] : a \in 1..n} :
           n \in {2, 3, 4}}

\* a question in the line format 'Q: <question>', '<letter>) <option text>'
\* for each option, 'ANSWER: <answer>', 'EXPLANATION: <explanation>'
Serialize(q) ==
    Join(<< <<"Q",":"," ">> \o q.question >> \o
         [i \in 1..Len(q.options) |-> <<q.options[i].key, ")", " ">> \o q.options[i].val] \o
         << <<"A","N","S","W","E","R",":"," ">> \o q.answer,
            <<"E","X","P","L","A","N","A","T","I","O","N",":"," ">> \o q.explanation >>)

SerializedQuestions == {Serialize(q) : q \in SampleQuestions}

ParserInputs ==
    LineResponses \cup ThreeBlockResponses \cup ModelResponses
        \cup {BlockAnswerAbsent, BlockOptionsBC, ResponseMalformedBetween, BlockContinuation}
        \cup SerializedQuestions

(***************************************************************************)
(* SessionManager: the values of session_data.  A list or dict of Python   *)
(* is an object that several names can share: session_data and             *)
(* default_session hold references, and objects maps a reference to the    *)
(* value of the list or dict it names.                                     *)
(***************************************************************************)
\* the keys of default_session whose values are lists or dicts
ObjectKeys ==
    {"quiz_scores", "topics_studied", "study_goals", "achievements", "preferences", "progress"}

\* the object __init__ created for the key, the object json.load created for it
DefaultRef(key) == <<"default", key>>
LoadedRef(key) == <<"loaded", key>>

EmptyDict == [x \in {} |-> 0]
NoneStamp == -1
NoUser == "None"

\* the values of the lists and dicts of self.default_session after __init__
DefaultValue(key) ==
    CASE key = "preferences" ->
            [difficulty_level |-> "medium", quiz_length |-> 10,
             show_explanations |-> TRUE, daily_goal_minutes |-> 30]
      [] key = "progress" ->
            [topics_completed |-> EmptyDict, overall_progress |-> 0,
             current_streak |-> 0, longest_streak |-> 0]
      [] key = "study_goals" -> EmptyDict
      [] OTHER -> <<>>

DefaultObjects == [r \in {DefaultRef(key) : key \in ObjectKeys} |-> DefaultValue(r[2])]

\* self.default_session: None is NoUser or NoneStamp, a list or dict is a
\* reference; daily_progress is <<>> while session_data has no such key
default_session ==
    [user_id |-> NoUser,
     session_start |-> NoneStamp,
     last_activity |-> NoneStamp,
     total_study_time |-> 0,
     questions_asked |-> 0,
     quizzes_taken |-> 0,
     quiz_scores |-> DefaultRef("quiz_scores"),
     topics_studied |-> DefaultRef("topics_studied"),
     current_certificate_level |-> "JD/JW",
     preferred_wing |-> "common",
     study_goals |-> DefaultRef("study_goals"),
     achievements |-> DefaultRef("achievements"),
     preferences |-> DefaultRef("preferences"),
     progress |-> DefaultRef("progress"),
     daily_progress |-> <<>>]

(***************************************************************************)
(* State.                                                                  *)
(***************************************************************************)
VARIABLES
    \* the parsers applied to one text
    input_text,       \* the text handed to the parser
    parse_pc,            \* "input", then the name of the function applied
    question_blocks,     \* parse_quiz_response: question_blocks after the split
    questions,           \* parse_quiz_response: the returned list
    question_data,       \* parse_single_question: <<>> for None, <<dict>> otherwise
    qi_question_blocks,  \* _parse_ai_response: question_blocks[1:], stripped
    qi_questions,        \* _parse_ai_response: the returned list
    qi_question,         \* _parse_single_question_block: <<>> for None
    \* the quiz pages: what both implementations share
    impl,                \* "page": quiz_interface.py with utils.py; "qi": QuizInterface
    now,                 \* datetime.now(), in minutes
    view,                \* what the last script run rendered
    view_idx,            \* the index of the question it rendered, -1 when none
    rerun,               \* st.rerun() / st.experimental_rerun() was called, the run is pending
    request,             \* the last request of the user
    called,              \* the last script run called the external model
    invoked_at,          \* history: when the external model was last called, NoTime while never
    \* st_session_state of the function-based page
    model,               \* the Gemini model is set up (setup_gemini returned one)
    quiz_questions,
    current_question,
    user_answers,
    quiz_submitted,
    quiz_completed,
    quiz_topic,
    quiz_score,
    quiz_results,        \* <<>> while the attribute is not set
    last_api_call,       \* NoTime for None
    \* st.session_state and the fields of QuizInterface
    gemini_client,       \* self.gemini_client is set
    quiz_session,        \* <<>> for None, <<QuizSession>> otherwise
    qi_quiz_results,     \* st.session_state.quiz_results: <<>> for None
    last_quiz_generation,
    quiz_history,
    \* SessionManager: st.session_state, the heap and the disk
    user_id,             \* st.session_state.user_id, NoUser while not set
    session_data,        \* st.session_state.session_data: <<>> while not set
    objects,             \* the lists and dicts that session_data and default_session name
    user_file,           \* data/sessions/<user_id>.json: <<>> while it does not exist
    page_states          \* quiz_state, chat_state and study_state of st.session_state

parseVars ==
    <<input_text, parse_pc, question_blocks, questions, question_data,
      qi_question_blocks, qi_questions, qi_question>>

sharedVars == <<impl, now, view, view_idx, rerun, request, called, invoked_at>>

pageVars ==
    <<model, quiz_questions, current_question, user_answers, quiz_submitted,
      quiz_completed, quiz_topic, quiz_score, quiz_results, last_api_call>>

qiVars ==
    <<gemini_client, quiz_session, qi_quiz_results, last_quiz_generation, quiz_history>>

smVars == <<user_id, session_data, objects, user_file, page_states>>

vars == <<parseVars, sharedVars, pageVars, qiVars, smVars>>

\* the SessionManager after __init__, st.session_state empty, no file stored
SessionIdle ==
    /\ user_id = NoUser
    /\ session_data = <<>>
    /\ objects = DefaultObjects
    /\ user_file = <<>>
    /\ page_states = EmptyDict

NoTime == -1

\* the state of the pages while the parsers are exercised alone
PagesIdle ==
    /\ impl = "none"
    /\ now = 0
    /\ view = "none"
    /\ view_idx = -1
    /\ rerun = FALSE
    /\ request = "none"
    /\ called = FALSE
    /\ invoked_at = NoTime
    /\ model = FALSE
    /\ quiz_questions = <<>>
    /\ current_question = 0
    /\ user_answers = <<>>
    /\ quiz_submitted = FALSE
    /\ quiz_completed = FALSE
    /\ quiz_topic = <<>>
    /\ quiz_score = 0
    /\ quiz_results = <<>>
    /\ last_api_call = NoTime
    /\ gemini_client = FALSE
    /\ quiz_session = <<>>
    /\ qi_quiz_results = <<>>
    /\ last_quiz_generation = NoTime
    /\ quiz_history = <<>>

(***************************************************************************)
(* The parsers as a state machine: a text is drawn, one of the four        *)
(* parsing functions is applied to it.                                     *)
(***************************************************************************)
ParseInit ==
    /\ SessionIdle
    /\ input_text \in ParserInputs
    /\ parse_pc = "input"
    /\ question_blocks = <<>>
    /\ questions = <<>>
    /\ question_data = <<>>
    /\ qi_question_blocks = <<>>
    /\ qi_questions = <<>>
    /\ qi_question = <<>>
    /\ PagesIdle

ParseQuizResponse ==
    /\ parse_pc = "input"
    /\ parse_pc' = "parse_quiz_response"
    /\ question_blocks' = question_blocks_of(input_text)
    /\ questions' = parse_quiz_response(input_text)
    /\ UNCHANGED <<input_text, question_data, qi_question_blocks, qi_questions,
                   qi_question>>
    /\ UNCHANGED <<sharedVars, pageVars, qiVars, smVars>>

ParseSingleQuestion ==
    /\ parse_pc = "input"
    /\ parse_pc' = "parse_single_question"
    /\ question_data' = parse_single_question(input_text)
    /\ UNCHANGED <<input_text, question_blocks, questions, qi_question_blocks,
                   qi_questions, qi_question>>
    /\ UNCHANGED <<sharedVars, pageVars, qiVars, smVars>>

ParseAIResponse ==
    /\ parse_pc = "input"
    /\ parse_pc' = "parse_ai_response"
    /\ qi_question_blocks' = QIBlocks(input_text)
    /\ qi_questions' = parse_ai_response(input_text)
    /\ UNCHANGED <<input_text, question_blocks, questions, question_data,
                   qi_question>>
    /\ UNCHANGED <<sharedVars, pageVars, qiVars, smVars>>

ParseSingleQuestionBlock ==
    /\ parse_pc = "input"
    /\ parse_pc' = "parse_single_question_block"
    /\ qi_question' = parse_single_question_block(input_text)
    /\ UNCHANGED <<input_text, question_blocks, questions, question_data,
                   qi_question_blocks, qi_questions>>
    /\ UNCHANGED <<sharedVars, pageVars, qiVars, smVars>>

ParseNext ==
    \/ ParseQuizResponse
    \/ ParseSingleQuestion
    \/ ParseAIResponse
    \/ ParseSingleQuestionBlock

ParseSpec == ParseInit /\ [][ParseNext]_vars

(***************************************************************************)
(* Claims about the parsers (checked under ParseSpec).                     *)
(***************************************************************************)
\* the validator's contract for a question dict of utils.py
ValidQuestion(q) ==
    /\ q.question # <<>>
    /\ Len(q.options) >= 2
    /\ AnswerInOptions(q.answer, q.options)

\* C1: every question returned by utils.parse_quiz_response, and every
\* non-None result of parse_single_question, has a non-empty question, at
\* least 2 options and an answer that is a key of its options.
C1_ReturnedQuestionsValid ==
    /\ parse_pc = "parse_quiz_response" =>
          \A i \in 1..Len(questions) : ValidQuestion(questions[i])
    /\ parse_pc = "parse_single_question" =>
          \A i \in 1..Len(question_data) : ValidQuestion(question_data[i])

\* the lines of a block that the block parser of utils.py treats as option
\* lines and as answer lines (the order of the elif chain)
OptionLinesOf(block) ==
    {i \in 1..Len(LinesOf(block)) :
        ~IsQuestionLine(LinesOf(block)[i]) /\ IsOptionLine(LinesOf(block)[i])}

AnswerLinesOf(block) ==
    {i \in 1..Len(LinesOf(block)) :
        /\ ~IsQuestionLine(LinesOf(block)[i])
        /\ ~IsOptionLine(LinesOf(block)[i])
        /\ IsAnswerLine(LinesOf(block)[i])}

OptionLettersOf(block) ==
    {Upper(LinesOf(block)[i])[1] : i \in OptionLinesOf(block)}

WordAnswer == <<"A","N","S","W","E","R",":">>

\* the letter an answer line names: the first of A..D after the ANSWER: marker
ReferencedLetter(line) ==
    SearchLetter(From(line, Find(Upper(line), WordAnswer) + Len(WordAnswer) - 1))

\* the lines of a block that the block parser of utils.py treats as question
\* lines, and the text such a line gives
QuestionLinesOf(block) ==
    {i \in 1..Len(LinesOf(block)) : IsQuestionLine(LinesOf(block)[i])}

\* the block has a question line with a text and two options, so that only
\* its answer decides; it has an answer line, and each of its answer lines
\* names a letter for which the block has no option
AnswerReferencesAbsentOption(block) ==
    /\ QuestionLinesOf(block) # {}
    /\ \A i \in QuestionLinesOf(block) : AfterColon(LinesOf(block)[i]) # <<>>
    /\ Cardinality(OptionLettersOf(block)) >= 2
    /\ AnswerLinesOf(block) # {}
    /\ \A i \in AnswerLinesOf(block) :
          /\ ReferencedLetter(LinesOf(block)[i]) # <<>>
          /\ ReferencedLetter(LinesOf(block)[i])[1] \notin OptionLettersOf(block)

\* C2: a block whose ANSWER: line references a letter for which the block has
\* no parsed option is rejected (None), by parse_single_question and by
\* QuizInterface._parse_single_question_block.
C2_AbsentAnswerRejected ==
    AnswerReferencesAbsentOption(input_text) =>
        /\ parse_pc = "parse_single_question" => question_data = <<>>
        /\ parse_pc = "parse_single_question_block" => qi_question = <<>>

\* the block starts with a question line, has two option lines with different
\* letters, and no line with ANSWER:
QuestionAndOptionsNoAnswer(block) ==
    /\ 1 \in QuestionLinesOf(block)
    /\ Cardinality(OptionLettersOf(block)) >= 2
    /\ \A i \in 1..Len(LinesOf(block)) : ~IsAnswerLine(LinesOf(block)[i])

\* C3: a block with a question line and at least two option lines but no
\* ANSWER: line is rejected (None), by parse_single_question and by
\* QuizInterface._parse_single_question_block.
C3_MissingAnswerRejected ==
    QuestionAndOptionsNoAnswer(input_text) =>
        /\ parse_pc = "parse_single_question" => question_data = <<>>
        /\ parse_pc = "parse_single_question_block" => qi_question = <<>>

\* C5: a response of 3 question blocks introduced by QUESTION 1:, QUESTION 2:,
\* QUESTION 3: is segmented into exactly 3 candidate blocks, by
\* utils.parse_quiz_response and by QuizInterface._parse_ai_response.
C5_ThreeMarkersThreeBlocks ==
    input_text \in ThreeBlockResponses =>
        /\ parse_pc = "parse_quiz_response" => Len(question_blocks) = 3
        /\ parse_pc = "parse_ai_response" => Len(qi_question_blocks) = 3

\* the patterns in the order the claim names them
CascadeOrder == <<PatQ, PatQuestion, PatSeparator, PatBlank>>

\* the patterns that split the text into more than one non-empty block
SplittingPatterns(text) ==
    {k \in 1..Len(CascadeOrder) : Len(SplitBlocks(CascadeOrder[k], text)) > 1}

\* no pattern occurs anywhere in the text
NoMarker(text) ==
    \A k \in 1..Len(CascadeOrder) : \A i \in 1..Len(text) :
        MatchEnd(CascadeOrder[k], text, i) = 0

C18_ReparseIdempotent ==
    \A q \in SampleQuestions :
        input_text = Serialize(q) =>
            /\ parse_pc = "parse_single_question" =>
                  /\ question_data # <<>>
                  /\ question_data[1].question = q.question
                  /\ question_data[1].options = q.options
                  /\ question_data[1].answer = q.answer
            /\ (parse_pc = "parse_single_question_block" /\ Len(q.options) = 4) =>
                  /\ qi_question # <<>>
                  /\ qi_question[1].question = q.question
                  /\ qi_question[1].options = q.options
                  /\ qi_question[1].correct_answer = q.answer

\* the line has the prompted form 'ANSWER: X' with X one of A..D
PromptedAnswerLine(line) ==
    \E x \in {"A", "B", "C", "D"} : Strip(line) = WordAnswer \o <<" ", x>>

\* the letters that the prompted answer lines of the block name after the marker
NamedLetters(block) ==
    {Strip(LinesOf(block)[i])[Len(WordAnswer) + 2] :
        i \in {j \in 1..Len(LinesOf(block)) : PromptedAnswerLine(LinesOf(block)[j])}}

\* C21: for a block whose answer lines have the prompted form 'ANSWER: X' and
\* name one letter X of A..D, the answer recorded for the parsed question is
\* X, by parse_single_question and by
\* QuizInterface._parse_single_question_block.
C21_AnswerIsNamedLetter ==
    \A x \in {"A", "B", "C", "D"} :
        (/\ NamedLetters(input_text) = {x}
         /\ \A i \in 1..Len(LinesOf(input_text)) :
                IsAnswerLine(LinesOf(input_text)[i]) => PromptedAnswerLine(LinesOf(input_text)[i]))
        => /\ (parse_pc = "parse_single_question" /\ question_data # <<>>) =>
                    question_data[1].answer = <<x>>
           /\ (parse_pc = "parse_single_question_block" /\ qi_question # <<>>) =>
                    qi_question[1].correct_answer = <<x>>

\* the block has a question line with a text, option lines for 2 or 3
\* letters, and answer lines that all name one of these letters
FewOptionsAnswerPresent(block) ==
    /\ QuestionLinesOf(block) # {}
    /\ \A i \in QuestionLinesOf(block) : AfterColon(LinesOf(block)[i]) # <<>>
    /\ Cardinality(OptionLettersOf(block)) \in {2, 3}
    /\ AnswerLinesOf(block) # {}
    /\ \A i \in AnswerLinesOf(block) :
          /\ ReferencedLetter(LinesOf(block)[i]) # <<>>
          /\ ReferencedLetter(LinesOf(block)[i])[1] \in OptionLettersOf(block)

\* C23: a block with a non-empty question, an answer that is one of its
\* option keys and only 2 or 3 options is accepted as a question, by
\* parse_single_question and by QuizInterface._parse_single_question_block.
C23_FewOptionsAccepted ==
    FewOptionsAnswerPresent(input_text) =>
        /\ parse_pc = "parse_single_question" => question_data # <<>>
        /\ parse_pc = "parse_single_question_block" => qi_question # <<>>

\* the candidate question of a block: its parsed fields, with the first line
\* of the block as the question when no question line was found
CandidateOf(block) ==
    LET qd == ParseLines(EmptyQuestionData, LinesOf(block))
    IN  QuestionDict(IF qd.question = <<>> /\ LinesOf(block) # <<>>
                     THEN [qd EXCEPT !.question = LinesOf(block)[1]]
                     ELSE qd)

\* the block passes validation
ValidBlock(block) == Strip(block) # <<>> /\ ValidQuestion(CandidateOf(Strip(block)))

\* the questions of the valid blocks, in the order of the blocks
RECURSIVE QuestionsOfValid(_)
QuestionsOfValid(blocks) ==
    IF blocks = <<>> THEN <<>>
    ELSE (IF ValidBlock(Head(blocks)) THEN << CandidateOf(Strip(Head(blocks))) >> ELSE <<>>)
             \o QuestionsOfValid(Tail(blocks))

\* C24: parse_quiz_response returns exactly the questions of the blocks that
\* pass validation, in the order of the blocks in the response; a block that
\* fails validation is dropped, wherever it lies.
C24_InvalidBlocksDropped ==
    parse_pc = "parse_quiz_response" => questions = QuestionsOfValid(question_blocks)

\* the line matches no question, option, answer or explanation pattern
OtherLine(line) ==
    /\ ~IsQuestionLine(line)
    /\ ~IsOptionLine(line)
    /\ ~IsAnswerLine(line)
    /\ ~IsExplanationLine(line)

\* text with the unmatched lines among ls[m], ..., ls[j - 1] appended, each
\* after one space
RECURSIVE Continued(_, _, _, _)
Continued(text, ls, m, j) ==
    IF m >= j THEN text
    ELSE Continued(IF OtherLine(ls[m]) THEN text \o <<" ">> \o ls[m] ELSE text, ls, m + 1, j)

\* the text the claim gives the option k of the block: that of the last
\* option line for k, continued by the unmatched lines up to the next option line
ExpectedOptionText(block, k) ==
    LET ls == LinesOf(block)
        mine == {i \in OptionLinesOf(block) : Upper(ls[i])[1] = k}
        last == CHOOSE i \in mine : \A j \in mine : j <= i
        later == {i \in OptionLinesOf(block) : i > last} \cup {Len(ls) + 1}
        next == CHOOSE i \in later : \A j \in later : i <= j
    IN  Continued(Strip(From(ls[last], 2)), ls, last + 1, next)

\* C25: in parse_single_question a line that matches no pattern is appended,
\* after one space, to the text of the most recently recorded option, and is
\* ignored while no option has been recorded: the options of the result are
\* those of the option lines, each continued by the unmatched lines that
\* follow it up to the next option line.
C25_ContinuationLines ==
    (parse_pc = "parse_single_question" /\ question_data # <<>>) =>
        /\ Keys(question_data[1].options) = OptionLettersOf(input_text)
        /\ \A k \in OptionLettersOf(input_text) :
              Get(question_data[1].options, k) = ExpectedOptionText(input_text, k)

\* C25 witness: the block has an unmatched line before its first option line
\* and one after an option line, and the text of that option is continued
C25_Witness ==
    /\ parse_pc = "parse_single_question"
    /\ question_data # <<>>
    /\ \E m \in 1..Len(LinesOf(input_text)) :
          /\ OtherLine(LinesOf(input_text)[m])
          /\ \A i \in OptionLinesOf(input_text) : m < i
    /\ \E i \in OptionLinesOf(input_text) :
          /\ i < Len(LinesOf(input_text))
          /\ OtherLine(LinesOf(input_text)[i + 1])
          /\ Get(question_data[1].options, Upper(LinesOf(input_text)[i])[1]) =
                Strip(From(LinesOf(input_text)[i], 2)) \o <<" ">> \o LinesOf(input_text)[i + 1]

\* the text of the option k of the block when only the unmatched lines
\* directly after its option line continue it
DirectOptionText(block, k) ==
    LET ls == LinesOf(block)
        mine == {i \in OptionLinesOf(block) : Upper(ls[i])[1] = k}
        last == CHOOSE i \in mine : \A j \in mine : j <= i
        ends == {m \in (last + 1)..Len(ls) : ~OtherLine(ls[m])} \cup {Len(ls) + 1}
        stop == CHOOSE m \in ends : \A j \in ends : m <= j
    IN  Continued(Strip(From(ls[last], 2)), ls, last + 1, stop)

\* the first answer or explanation line of the block, past its end when none
FirstAnswerOrExplanation(block) ==
    LET ls == LinesOf(block)
        found == {i \in 1..Len(ls) :
                    /\ ~IsQuestionLine(ls[i])
                    /\ ~IsOptionLine(ls[i])
                    /\ IsAnswerLine(ls[i]) \/ IsExplanationLine(ls[i])} \cup {Len(ls) + 1}
    IN  CHOOSE i \in found : \A j \in found : i <= j

\* the question q parsed from the block has the option texts of its option
\* lines and, when the block has an answer or explanation line, the question
\* text that its question lines before that line give
UntouchedByTrailingLines(q, block) ==
    /\ \A k \in Keys(q.options) \cap OptionLettersOf(block) :
          Get(q.options, k) = DirectOptionText(block, k)
    /\ LET before == {i \in QuestionLinesOf(block) : i < FirstAnswerOrExplanation(block)}
           asked == AfterColon(LinesOf(block)[CHOOSE i \in before : \A j \in before : j <= i])
       IN  (before # {} /\ FirstAnswerOrExplanation(block) <= Len(LinesOf(block))) =>
              (asked # <<>> => q.question = asked)

\* C26: in parse_single_question the lines after the ANSWER: or EXPLANATION:
\* line of a block change neither the text of an option nor the question
\* text: the text of an option is that of its option line and of the
\* unmatched lines directly after it.  Stated for a block parsed alone and
\* for the blocks of parse_quiz_response when each of them gave a question.
C26_TrailingLinesChangeNothing ==
    /\ (parse_pc = "parse_single_question" /\ question_data # <<>>) =>
          UntouchedByTrailingLines(question_data[1], input_text)
    /\ (parse_pc = "parse_quiz_response" /\ Len(questions) = Len(question_blocks)) =>
          \A i \in 1..Len(questions) : UntouchedByTrailingLines(questions[i], question_blocks[i])

(***************************************************************************)
(* The quiz pages.  A script run is one pass of the page function over the *)
(* session state, with the button the user clicked (if any), the value of  *)
(* the radio, the topic typed and the outcome of the external model call,  *)
(* if one is made.  st.rerun() ends the pass and schedules another one.    *)
(***************************************************************************)
MaxTime == 2

\* a Python dict with integer keys as a function
DictPut(d, k, v) == [x \in (DOMAIN d) \cup {k} |-> IF x = k THEN v ELSE d[x]]

\* the topic tested without str.strip(): a blank topic counts as given
TopicGivenUnstripped(topic) == topic # <<>>

\* quiz_topic.strip() is not empty (QuizInterface: final_topic, the stripped
\* custom topic, is not empty)
TopicGiven(topic) == Strip(topic) # <<>>

\* the topics the user may type
TopicInputs == { <<"d">>, <<" ","d">>, <<" ">>, <<>> }

\* the texts the external model may return to the function-based page
PageResponses ==
    {ResponseUtilsFormat, ResponseUtilsThree, ResponseQIFormat, ResponseTwoOptions,
     ResponseNoQuestion}

\* parse_quiz_response on each of these texts
PageParsed == {[text |-> r, questions |-> parse_quiz_response(r)] : r \in PageResponses}

\* the outcomes of model.generate_content: an exception, or a text
Outcomes(responses) ==
    {[kind |-> "raise", text |-> <<>>]} \cup {[kind |-> "ok", text |-> r] : r \in responses}

(***************************************************************************)
(* utils.py: the rate limiter and quiz generation                          *)
(***************************************************************************)
cooldown_minutes == 2

\* can_make_api_call with <= for <: a request exactly at the end of the
\* cooldown is still rejected
can_make_api_call_late ==
    IF last_api_call = NoTime THEN TRUE
    ELSE ~(now - last_api_call <= cooldown_minutes)

\* can_make_api_call with the cooldown applied only while a quiz exists
can_make_api_call_no_quiz ==
    IF last_api_call = NoTime \/ quiz_questions = <<>> THEN TRUE
    ELSE ~(now - last_api_call < cooldown_minutes)

\* can_make_api_call
can_make_api_call ==
    IF last_api_call = NoTime THEN TRUE
    ELSE ~(now - last_api_call < cooldown_minutes)

\* the returned list, whether generate_content was called, and whether
\* last_api_call was set to now
generate_quiz_questions(outcome) ==
    IF ~model
    THEN [questions |-> <<>>, called |-> FALSE, stamped |-> FALSE]
    ELSE IF ~can_make_api_call
    THEN [questions |-> <<>>, called |-> FALSE, stamped |-> FALSE]
    ELSE IF outcome.kind = "raise"
    THEN [questions |-> <<>>, called |-> TRUE, stamped |-> FALSE]
    ELSE [questions |-> (CHOOSE p \in PageParsed : p.text = outcome.text).questions,
          called |-> TRUE, stamped |-> TRUE]

(***************************************************************************)
(* quiz_interface.py: the function-based page                              *)
(***************************************************************************)
\* display_quiz_creation, with the Generate Quiz button clicked or not
display_quiz_creation(click, topic, outcome) ==
    /\ view' = "creation"
    /\ view_idx' = -1
    /\ IF click = "generate" /\ TopicGiven(topic)
       THEN \E g \in {generate_quiz_questions(outcome)} :
                /\ called' = g.called
                /\ last_api_call' = IF g.stamped THEN now ELSE last_api_call
                /\ IF g.questions # <<>>
                   THEN /\ quiz_questions' = g.questions
                        /\ quiz_topic' = Strip(topic)
                        /\ current_question' = 0
                        /\ user_answers' = <<>>
                        /\ quiz_submitted' = FALSE
                        /\ quiz_completed' = FALSE
                        /\ rerun' = TRUE
                   ELSE /\ rerun' = FALSE
                        /\ UNCHANGED <<quiz_questions, quiz_topic, current_question,
                                       user_answers, quiz_submitted, quiz_completed>>
                /\ UNCHANGED <<model, quiz_score, quiz_results>>
       ELSE /\ rerun' = FALSE
            /\ called' = FALSE
            /\ UNCHANGED pageVars

\* reset_quiz
reset_quiz ==
    /\ quiz_questions' = <<>>
    /\ current_question' = 0
    /\ user_answers' = <<>>
    /\ quiz_submitted' = FALSE
    /\ quiz_completed' = FALSE
    /\ quiz_topic' = <<>>
    /\ quiz_score' = 0

\* the radio of display_active_quiz calls format_func on 'A', 'B', 'C', 'D',
\* which reads current_question['options'][x]
RadioRenders(q) == \A x \in OptionLetters : HasKey(q.options, x)

\* the value of the radio in a run without a form submission
PageWidgetValue ==
    IF current_question \in DOMAIN user_answers
    THEN user_answers[current_question] ELSE <<"A">>

\* current_idx > 0: the Previous button is enabled, and its click is handled
HasPrevious(current_idx) == current_idx > 0

\* the comparison off by one: current_idx < len(questions)
HasNextOffByOne(current_idx, quiz_qs) == current_idx < Len(quiz_qs)

\* current_idx < len(questions) - 1: the Next button is rendered (the Finish
\* Quiz button otherwise), and its click is handled
HasNext(current_idx, quiz_qs) == current_idx < Len(quiz_qs) - 1

\* display_active_quiz; sel is the value of the radio in this run
display_active_quiz(click, sel) ==
    /\ called' = FALSE
    /\ IF quiz_submitted
       THEN \* show_current_answer_result(None, None, st_session_state)
            /\ view' = IF quiz_results = <<>> THEN "submitted" ELSE "results"
            /\ view_idx' = -1
            /\ rerun' = FALSE
            /\ UNCHANGED pageVars
       ELSE LET idx    == current_question
                q      == quiz_questions[idx + 1]
                \* answer_key in st_session_state: the radio of this question
                \* was rendered by the previous run
                stored == IF view = "question" /\ view_idx = idx
                          THEN DictPut(user_answers, idx, sel) ELSE user_answers
            IN  IF ~RadioRenders(q)
                THEN /\ view' = "error"
                     /\ view_idx' = -1
                     /\ rerun' = FALSE
                     /\ user_answers' = stored
                     /\ UNCHANGED <<model, quiz_questions, current_question, quiz_submitted,
                                    quiz_completed, quiz_topic, quiz_score, quiz_results,
                                    last_api_call>>
                ELSE /\ view' = "question"
                     /\ view_idx' = idx
                     /\ UNCHANGED <<model, quiz_results, last_api_call>>
                     /\ CASE click = "previous" /\ HasPrevious(idx) ->
                               /\ current_question' = current_question - 1
                               /\ user_answers' = stored
                               /\ rerun' = TRUE
                               /\ UNCHANGED <<quiz_questions, quiz_submitted, quiz_completed,
                                              quiz_topic, quiz_score>>
                          [] click = "next" /\ HasNext(idx, quiz_questions) ->
                               /\ user_answers' = DictPut(stored, idx, sel)
                               /\ current_question' = current_question + 1
                               /\ rerun' = TRUE
                               /\ UNCHANGED <<quiz_questions, quiz_submitted, quiz_completed,
                                              quiz_topic, quiz_score>>
                          [] click = "finish" ->
                               /\ user_answers' = DictPut(stored, idx, sel)
                               /\ quiz_submitted' = TRUE
                               /\ rerun' = TRUE
                               /\ UNCHANGED <<quiz_questions, current_question, quiz_completed,
                                              quiz_topic, quiz_score>>
                          [] click = "new_quiz" ->
                               /\ reset_quiz
                               /\ rerun' = TRUE
                          [] OTHER ->
                               /\ user_answers' = stored
                               /\ rerun' = FALSE
                               /\ UNCHANGED <<quiz_questions, current_question, quiz_submitted,
                                              quiz_completed, quiz_topic, quiz_score>>

\* display_quiz_interface: one script run of the function-based page
display_quiz_interface(click, sel, topic, outcome) ==
    /\ IF quiz_questions = <<>> \/ quiz_completed
       THEN display_quiz_creation(click, topic, outcome)
       ELSE display_active_quiz(click, sel)
    /\ UNCHANGED qiVars

(***************************************************************************)
(* Scoring.  A percentage is a float in the code; here it is the exact     *)
(* fraction num/den.                                                       *)
(***************************************************************************)
\* a / b
Divide(a, b) == [num |-> a, den |-> b]

\* x * k
Times(x, k) == [num |-> x.num * k, den |-> x.den]

\* the loop of calculate_and_show_results over enumerate(questions), from i on:
\* the number of i with user_answers.get(i) == question['answer']
RECURSIVE CountCorrect(_, _, _)
CountCorrect(qs, answers, i) ==
    IF i >= Len(qs) THEN 0
    ELSE (IF i \in DOMAIN answers /\ answers[i] = qs[i + 1].answer THEN 1 ELSE 0)
         + CountCorrect(qs, answers, i + 1)

\* the results with the unanswered questions left out of the denominator
PageResultsAnsweredOnly(qs, answers) ==
    LET correct_count   == CountCorrect(qs, answers, 0)
        total_questions == Cardinality(DOMAIN answers)
    IN  [correct_count    |-> correct_count,
         total_questions  |-> total_questions,
         score_percentage |-> Times(Divide(correct_count, total_questions), 100),
         questions        |-> qs,
         user_answers     |-> answers]

\* the dict stored as quiz_results by calculate_and_show_results
PageResults(qs, answers) ==
    LET correct_count   == CountCorrect(qs, answers, 0)
        total_questions == Len(qs)
    IN  [correct_count    |-> correct_count,
         total_questions  |-> total_questions,
         score_percentage |-> Times(Divide(correct_count, total_questions), 100),
         questions        |-> qs,
         user_answers     |-> answers]

\* calculate_and_show_results
calculate_and_show_results ==
    /\ quiz_submitted' = TRUE
    /\ quiz_completed' = TRUE
    /\ quiz_score' = PageResults(quiz_questions, user_answers).score_percentage
    /\ quiz_results' = << PageResults(quiz_questions, user_answers) >>
    /\ UNCHANGED <<model, quiz_questions, current_question, user_answers, quiz_topic,
                   last_api_call>>

\* the loop of QuizInterface._calculate_quiz_results: user_answers.get(i, "")
\* compared with question.correct_answer
QIUserAnswer(answers, i) == IF i \in DOMAIN answers THEN answers[i] ELSE <<>>

RECURSIVE QICountCorrect(_, _, _)
QICountCorrect(qs, answers, i) ==
    IF i >= Len(qs) THEN 0
    ELSE (IF QIUserAnswer(answers, i) = qs[i + 1].correct_answer THEN 1 ELSE 0)
         + QICountCorrect(qs, answers, i + 1)

\* QuizInterface._calculate_quiz_results (the recommendations are texts for
\* the user and are left out)
calculate_quiz_results(session) ==
    LET total_questions == Len(session.questions)
        correct_count   == QICountCorrect(session.questions, session.user_answers, 0)
    IN  [total_questions  |-> total_questions,
         correct_answers  |-> correct_count,
         score_percentage |-> Times(Divide(correct_count, total_questions), 100),
         time_taken       |-> session.end_time - session.start_time,
         topic            |-> session.topic,
         detailed_results |->
             [i \in 1..total_questions |->
                 [question_num   |-> i,
                  user_answer    |-> QIUserAnswer(session.user_answers, i - 1),
                  correct_answer |-> session.questions[i].correct_answer,
                  is_correct     |-> QIUserAnswer(session.user_answers, i - 1)
                                        = session.questions[i].correct_answer]]]

(***************************************************************************)
(* interface/quiz_interface.py: QuizInterface                              *)
(***************************************************************************)
rate_limit_minutes == 1
min_questions_per_quiz == 3
MaxNumQuestions == 4

\* the texts the external model may return to QuizInterface
QIResponses == {ResponseQIFormat, ResponseQIThree, ResponseQIFive, ResponseNoQuestion}

\* _parse_ai_response on each of these texts
QIParsed == {[text |-> r, questions |-> parse_ai_response(r)] : r \in QIResponses}

\* a QuizQuestion built in the code
Question(text, a, b, c, d, correct) ==
    [question |-> text,
     options |-> << [key |-> "A", val |-> a], [key |-> "B", val |-> b],
                    [key |-> "C", val |-> c], [key |-> "D", val |-> d] >>,
     correct_answer |-> << correct >>,
     explanation |-> <<"e">>]

\* _generate_fallback_questions
fallback_questions ==
    << Question(<<"f","1">>, <<"a">>, <<"b">>, <<"c">>, <<"d">>, "C"),
       Question(<<"f","2">>, <<"a">>, <<"b">>, <<"c">>, <<"d">>, "B") >>

\* the questions of _load_demo_questions
demo_questions ==
    << Question(<<"d","1">>, <<"a">>, <<"b">>, <<"c">>, <<"d">>, "A"),
       Question(<<"d","2">>, <<"a">>, <<"b">>, <<"c">>, <<"d">>, "B"),
       Question(<<"d","3">>, <<"a">>, <<"b">>, <<"c">>, <<"d">>, "B"),
       Question(<<"d","4">>, <<"a">>, <<"b">>, <<"c">>, <<"d">>, "D"),
       Question(<<"d","5">>, <<"a">>, <<"b">>, <<"c">>, <<"d">>, "B") >>

\* xs[:n]
Prefix(xs, n) == SubSeq(xs, 1, IF n < Len(xs) THEN n ELSE Len(xs))

\* QuizSession(questions=..., topic=...) after __post_init__
QuizSession(qs, topic) ==
    [questions |-> qs, current_question_idx |-> 0, user_answers |-> <<>>,
     start_time |-> now, end_time |-> NoTime, topic |-> topic]

_can_generate_quiz ==
    IF last_quiz_generation = NoTime THEN TRUE
    ELSE now - last_quiz_generation >= rate_limit_minutes

_has_completed_quiz ==
    IF quiz_session = <<>> THEN FALSE
    ELSE Cardinality(DOMAIN quiz_session[1].user_answers) >= Len(quiz_session[1].questions)

_is_quiz_active == quiz_session # <<>> /\ ~_has_completed_quiz

\* _generate_questions_with_ai without the slice [:num_questions]
generate_questions_uncut(outcome, num_questions) ==
    IF outcome.kind = "raise"
    THEN fallback_questions
    ELSE (CHOOSE p \in QIParsed : p.text = outcome.text).questions

\* _generate_questions_with_ai, with self.gemini_client set
_generate_questions_with_ai(outcome, num_questions) ==
    IF outcome.kind = "raise"
    THEN Prefix(fallback_questions, num_questions)
    ELSE Prefix((CHOOSE p \in QIParsed : p.text = outcome.text).questions, num_questions)

\* _restart_quiz
_restart_quiz ==
    /\ quiz_session' = <<>>
    /\ qi_quiz_results' = <<>>

\* _complete_quiz
_complete_quiz(session) ==
    LET ended   == [session EXCEPT !.end_time = now]
        results == calculate_quiz_results(ended)
    IN  /\ qi_quiz_results' = << results >>
        /\ quiz_history' = Append(quiz_history,
                                  [timestamp |-> now, topic |-> session.topic,
                                   score |-> results.score_percentage,
                                   questions |-> Len(session.questions)])
        /\ quiz_session' = <<>>

\* current_idx > 0: the Previous button is enabled, and its click is handled
QIHasPrevious(current_idx) == current_idx > 0

\* current_idx < len(session.questions) - 1: the Next button is rendered, and
\* its click is handled
QIHasNext(current_idx, session) == current_idx < Len(session.questions) - 1

\* the comparison with <= for ==: the Finish Quiz button on every question
QIIsLastOrBefore(current_idx, session) == current_idx <= Len(session.questions) - 1

\* current_idx == len(session.questions) - 1: the Finish Quiz button is rendered
QIIsLast(current_idx, session) == current_idx = Len(session.questions) - 1

\* _handle_quiz_navigation, called by _render_active_quiz in every run that
\* renders a question; sel is the value of the radio in this run
_handle_quiz_navigation(session, sel, current_idx, click) ==
    LET saved == [session EXCEPT !.user_answers = DictPut(session.user_answers, current_idx, sel)]
    IN  CASE click = "previous" /\ QIHasPrevious(current_idx) ->
               /\ quiz_session' = << [saved EXCEPT !.current_question_idx = current_idx - 1] >>
               /\ rerun' = TRUE
               /\ UNCHANGED <<qi_quiz_results, quiz_history>>
          [] click = "next" /\ QIHasNext(current_idx, session) ->
               /\ quiz_session' = << [saved EXCEPT !.current_question_idx = current_idx + 1] >>
               /\ rerun' = TRUE
               /\ UNCHANGED <<qi_quiz_results, quiz_history>>
          [] click = "finish" ->
               /\ _complete_quiz(saved)
               /\ rerun' = TRUE
          [] click = "new_quiz" ->
               /\ _restart_quiz
               /\ rerun' = TRUE
               /\ UNCHANGED quiz_history
          [] OTHER ->
               /\ quiz_session' = << saved >>
               /\ rerun' = FALSE
               /\ UNCHANGED <<qi_quiz_results, quiz_history>>

\* the value of the radio of _render_active_quiz in a run without a form
\* submission: the recorded answer, the first option otherwise
QIWidgetValue ==
    LET session == quiz_session[1]
        idx     == session.current_question_idx
    IN  IF idx \in DOMAIN session.user_answers
        THEN session.user_answers[idx]
        ELSE << session.questions[idx + 1].options[1].key >>

\* _render_active_quiz
_render_active_quiz(click, sel) ==
    /\ view' = "question"
    /\ view_idx' = quiz_session[1].current_question_idx
    /\ called' = FALSE
    /\ _handle_quiz_navigation(quiz_session[1], sel, quiz_session[1].current_question_idx, click)
    /\ UNCHANGED <<gemini_client, last_quiz_generation>>

\* _render_quiz_results: reading the fields of quiz_results raises when it is
\* None; render catches the exception and calls _render_error_recovery,
\* which no class defines
_render_quiz_results(click) ==
    /\ view_idx' = -1
    /\ called' = FALSE
    /\ IF qi_quiz_results = <<>>
       THEN /\ view' = "error"
            /\ rerun' = FALSE
            /\ UNCHANGED qiVars
       ELSE /\ view' = "results"
            /\ IF click = "new_quiz"
               THEN /\ _restart_quiz
                    /\ rerun' = TRUE
                    /\ UNCHANGED <<gemini_client, last_quiz_generation, quiz_history>>
               ELSE /\ rerun' = FALSE
                    /\ UNCHANGED qiVars

\* _generate_new_quiz without its test of the generated list
generate_new_quiz_unchecked(topic, outcome, num_questions) ==
    \E new_questions \in {_generate_questions_with_ai(outcome, num_questions)} :
        /\ called' = TRUE
        /\ quiz_session' = << QuizSession(new_questions, topic) >>
        /\ last_quiz_generation' = now
        /\ rerun' = TRUE
        /\ UNCHANGED <<gemini_client, qi_quiz_results, quiz_history>>

\* _generate_new_quiz
_generate_new_quiz(topic, outcome, num_questions) ==
    \E new_questions \in {_generate_questions_with_ai(outcome, num_questions)} :
        /\ called' = TRUE
        /\ IF new_questions # <<>>
           THEN /\ quiz_session' = << QuizSession(new_questions, topic) >>
                /\ last_quiz_generation' = now
                /\ rerun' = TRUE
           ELSE /\ rerun' = FALSE
                /\ UNCHANGED <<quiz_session, last_quiz_generation>>
        /\ UNCHANGED <<gemini_client, qi_quiz_results, quiz_history>>

\* _render_quiz_creation, with the Generate Quiz button clicked or not
_render_quiz_creation(click, topic, outcome, num_questions) ==
    /\ view' = "creation"
    /\ view_idx' = -1
    /\ IF click = "generate" /\ TopicGiven(topic)
       THEN IF _can_generate_quiz
            THEN _generate_new_quiz(Strip(topic), outcome, num_questions)
            ELSE /\ called' = FALSE
                 /\ rerun' = FALSE
                 /\ UNCHANGED qiVars
       ELSE /\ called' = FALSE
            /\ rerun' = FALSE
            /\ UNCHANGED qiVars

\* _render_setup_guidance, with the Try Demo Mode button that calls
\* _load_demo_questions
_render_setup_guidance(click) ==
    /\ view' = "setup"
    /\ view_idx' = -1
    /\ called' = FALSE
    /\ IF click = "demo"
       THEN /\ quiz_session' = << QuizSession(demo_questions, <<"D","e","m","o">>) >>
            /\ last_quiz_generation' = now
            /\ rerun' = TRUE
            /\ UNCHANGED <<gemini_client, qi_quiz_results, quiz_history>>
       ELSE /\ rerun' = FALSE
            /\ UNCHANGED qiVars

\* QuizInterface.render: one script run of the class-based page
render(click, sel, topic, outcome, num_questions) ==
    /\ IF ~gemini_client
       THEN _render_setup_guidance(click)
       ELSE IF _is_quiz_active
            THEN _render_active_quiz(click, sel)
            ELSE IF _has_completed_quiz
                 THEN _render_quiz_results(click)
                 ELSE _render_quiz_creation(click, topic, outcome, num_questions)
    /\ UNCHANGED pageVars

(***************************************************************************)
(* The requests of the user.  A request on a button that is disabled or    *)
(* not rendered submits nothing: no script runs.                           *)
(***************************************************************************)
ParseIdle ==
    /\ input_text = <<>>
    /\ parse_pc = "idle"
    /\ question_blocks = <<>>
    /\ questions = <<>>
    /\ question_data = <<>>
    /\ qi_question_blocks = <<>>
    /\ qi_questions = <<>>
    /\ qi_question = <<>>

Init ==
    /\ ParseIdle
    /\ SessionIdle
    /\ impl \in {"page", "qi"}
    /\ now = 0
    /\ view = "none"
    /\ view_idx = -1
    /\ rerun = TRUE
    /\ request = "none"
    /\ called = FALSE
    /\ invoked_at = NoTime
    /\ model \in (IF impl = "page" THEN BOOLEAN ELSE {FALSE})
    /\ quiz_questions = <<>>
    /\ current_question = 0
    /\ user_answers = <<>>
    /\ quiz_submitted = FALSE
    /\ quiz_completed = FALSE
    /\ quiz_topic = <<>>
    /\ quiz_score = 0
    /\ quiz_results = <<>>
    /\ last_api_call = NoTime
    /\ gemini_client \in (IF impl = "qi" THEN BOOLEAN ELSE {FALSE})
    /\ quiz_session = <<>>
    /\ qi_quiz_results = <<>>
    /\ last_quiz_generation = NoTime
    /\ quiz_history = <<>>

NoOutcome == [kind |-> "raise", text |-> <<>>]

\* one script run of the page in use; the history records the time of a
\* call of the external model
Run(click, sel, topic, outcome, num_questions) ==
    /\ IF impl = "page"
       THEN display_quiz_interface(click, sel, topic, outcome)
       ELSE render(click, sel, topic, outcome, num_questions)
    /\ invoked_at' = IF called' THEN now ELSE invoked_at

\* no script run: nothing was submitted
NoRun ==
    UNCHANGED <<view, view_idx, rerun, request, called, invoked_at, pageVars, qiVars>>

\* the buttons of the rendered question
PreviousEnabled ==
    IF impl = "page" THEN HasPrevious(view_idx) ELSE QIHasPrevious(view_idx)

NextRendered ==
    IF impl = "page" THEN HasNext(view_idx, quiz_questions)
    ELSE quiz_session # <<>> /\ QIHasNext(view_idx, quiz_session[1])

FinishRendered ==
    IF impl = "page" THEN ~HasNext(view_idx, quiz_questions)
    ELSE quiz_session # <<>> /\ QIIsLast(view_idx, quiz_session[1])

\* the questions of the quiz in the session state
SessionQuestions ==
    IF impl = "page" THEN quiz_questions
    ELSE IF quiz_session # <<>> THEN quiz_session[1].questions ELSE <<>>

\* the values the radio of the rendered question offers
Selections ==
    IF view = "question" /\ view_idx + 1 \in 1..Len(SessionQuestions)
    THEN IF impl = "page" THEN { <<x>> : x \in OptionLetters }
         ELSE { <<k>> : k \in Keys(SessionQuestions[view_idx + 1].options) }
    ELSE IF view = "results" THEN { <<>> } ELSE {}

\* the value of the radio when the form is not submitted
WidgetValue ==
    IF impl = "page" THEN PageWidgetValue
    ELSE IF quiz_session # <<>> THEN QIWidgetValue ELSE <<>>

\* the Generate Quiz button; it is disabled while no topic is given
Generate(topic, outcome, num_questions) ==
    /\ ~rerun
    /\ view = "creation"
    /\ IF (IF impl = "page" THEN topic # <<>> ELSE TopicGiven(topic))
       THEN /\ request' = "generate"
            /\ Run("generate", <<>>, topic, outcome, num_questions)
       ELSE NoRun
    /\ UNCHANGED <<parseVars, smVars, impl, now>>

\* the Previous button; it is disabled on the first question
Previous(sel) ==
    /\ ~rerun
    /\ view = "question"
    /\ IF PreviousEnabled
       THEN /\ request' = "previous"
            /\ Run("previous", sel, <<>>, NoOutcome, min_questions_per_quiz)
       ELSE NoRun
    /\ UNCHANGED <<parseVars, smVars, impl, now>>

\* the Next button; it is rendered on every question but the last
Next_(sel) ==
    /\ ~rerun
    /\ view = "question"
    /\ IF NextRendered
       THEN /\ request' = "next"
            /\ Run("next", sel, <<>>, NoOutcome, min_questions_per_quiz)
       ELSE NoRun
    /\ UNCHANGED <<parseVars, smVars, impl, now>>

\* the Finish Quiz button; it is rendered on the last question only
Finish(sel) ==
    /\ ~rerun
    /\ view = "question"
    /\ IF FinishRendered
       THEN /\ request' = "finish"
            /\ Run("finish", sel, <<>>, NoOutcome, min_questions_per_quiz)
       ELSE NoRun
    /\ UNCHANGED <<parseVars, smVars, impl, now>>

\* the New Quiz button of the page, the Restart and Take Another Quiz buttons
\* of QuizInterface
NewQuiz(sel) ==
    /\ ~rerun
    /\ view \in {"question", "results"}
    /\ request' = "new_quiz"
    /\ Run("new_quiz", sel, <<>>, NoOutcome, min_questions_per_quiz)
    /\ UNCHANGED <<parseVars, smVars, impl, now>>

\* the Try Demo Mode button of QuizInterface
Demo ==
    /\ ~rerun
    /\ view = "setup"
    /\ request' = "demo"
    /\ Run("demo", <<>>, <<>>, NoOutcome, min_questions_per_quiz)
    /\ UNCHANGED <<parseVars, smVars, impl, now>>

\* a script run that no button of the quiz page caused
Refresh ==
    /\ ~rerun
    /\ request' = "refresh"
    /\ Run("none", WidgetValue, <<>>, NoOutcome, min_questions_per_quiz)
    /\ UNCHANGED <<parseVars, smVars, impl, now>>

\* the script run that st.rerun() scheduled, and the first run of the page
RerunPass ==
    /\ rerun
    /\ Run("none", WidgetValue, <<>>, NoOutcome, min_questions_per_quiz)
    /\ UNCHANGED <<parseVars, smVars, impl, now, request>>

\* time passes
Tick ==
    /\ ~rerun
    /\ now < MaxTime
    /\ now' = now + 1
    /\ UNCHANGED <<parseVars, smVars, impl, view, view_idx, rerun, request, called, invoked_at,
                   pageVars, qiVars>>

Next ==
    \/ \E topic \in TopicInputs :
       \E outcome \in Outcomes(IF impl = "page" THEN PageResponses ELSE QIResponses) :
       \E num_questions \in min_questions_per_quiz..MaxNumQuestions :
           Generate(topic, outcome, num_questions)
    \/ \E sel \in Selections : Previous(sel)
    \/ \E sel \in Selections : Next_(sel)
    \/ \E sel \in Selections : Finish(sel)
    \/ \E sel \in Selections : NewQuiz(sel)
    \/ Demo
    \/ Refresh
    \/ RerunPass
    \/ Tick

Spec == Init /\ [][Next]_vars

\* Streamlit runs the script again whenever st.rerun() was called
LiveSpec == Spec /\ WF_vars(RerunPass)

(***************************************************************************)
(* The claims on the quiz pages                                            *)
(***************************************************************************)
\* the session state of the quiz
QuizState ==
    <<quiz_questions, current_question, user_answers, quiz_submitted, quiz_completed,
      quiz_topic, quiz_session, qi_quiz_results>>

\* the text of the outcome holds no valid question for the page in use
ZeroValidQuestions(outcome) ==
    /\ outcome.kind = "ok"
    /\ \E p \in (IF impl = "page" THEN PageParsed ELSE QIParsed) :
          p.text = outcome.text /\ p.questions = <<>>

C7_IndexInRange ==
    /\ quiz_questions # <<>> => current_question \in 0..(Len(quiz_questions) - 1)
    /\ quiz_session # <<>> =>
          quiz_session[1].current_question_idx \in 0..(Len(quiz_session[1].questions) - 1)

\* C7 witness: Next was requested and the quiz of the page is at its last
\* question, which is not its first
C7_Witness ==
    /\ impl = "page"
    /\ request = "next"
    /\ Len(quiz_questions) >= 2
    /\ current_question = Len(quiz_questions) - 1

\* current_index of the quiz in the session state, -1 when there is none
CurrentIndex ==
    IF impl = "page" THEN current_question
    ELSE IF quiz_session # <<>> THEN quiz_session[1].current_question_idx ELSE -1

\* C8: a Previous request at index 0 and a Next request at the last index
\* leave current_index as it is; any other Previous request decrements it by
\* one and any other Next request increments it by one.
C8_NavigationSteps ==
    [][/\ (\E sel \in Selections : Previous(sel)) =>
             CurrentIndex' = (IF CurrentIndex = 0 THEN CurrentIndex ELSE CurrentIndex - 1)
       /\ (\E sel \in Selections : Next_(sel)) =>
             CurrentIndex' = (IF CurrentIndex = Len(SessionQuestions) - 1
                              THEN CurrentIndex ELSE CurrentIndex + 1)]_vars

\* the quiz is completed and its results are stored
Completed ==
    IF impl = "page" THEN quiz_completed /\ quiz_results # <<>>
    ELSE qi_quiz_results # <<>>

\* C10: a Finish request that was submitted leads to the completed quiz with
\* its results computed.
C10_FinishCompletes == (request = "finish") ~> Completed

(***************************************************************************)
(* SessionManager.  Its methods are operators on st, a record of           *)
(* st.session_state (user_id, session_data, page_states), the objects and  *)
(* the stored file; t is datetime.now().  A method that raises inside its  *)
(* try block leaves what it had assigned before the raise.                 *)
(***************************************************************************)
MinutesPerDay == 1440

\* datetime.now().date()
Date(t) == t \div MinutesPerDay

\* str(uuid.uuid4())
uuid4 == "u1"

\* the value of the list or dict that session_data names under the key
Value(st, key) == st.objects[st.session_data[1][key]]

\* the list or dict that session_data names under the key, changed in place
SetValue(st, key, v) == [st EXCEPT !.objects[st.session_data[1][key]] = v]

\* the merged keys without quiz_scores
LoadedKeysWithoutScores ==
    {"topics_studied", "achievements", "preferences", "progress", "study_goals"}

\* the keys that _load_persistent_data merges
LoadedKeys ==
    {"quiz_scores", "topics_studied", "achievements", "preferences", "progress", "study_goals"}

\* json.dump of save_data: the stored blob holds the values of the lists and
\* dicts, not the objects
save_progress(st, t) ==
    IF st.session_data = <<>> \/ st.user_id = NoUser
    THEN st
    ELSE [st EXCEPT !.user_file =
            << [user_id |-> st.session_data[1].user_id,
                last_saved |-> t,
                quiz_scores |-> Value(st, "quiz_scores"),
                topics_studied |-> Value(st, "topics_studied"),
                achievements |-> Value(st, "achievements"),
                preferences |-> Value(st, "preferences"),
                progress |-> Value(st, "progress"),
                study_goals |-> Value(st, "study_goals"),
                total_study_time |-> st.session_data[1].total_study_time,
                daily_progress |-> IF st.session_data[1].daily_progress = <<>>
                                   THEN EmptyDict
                                   ELSE st.session_data[1].daily_progress[1],
                current_certificate_level |-> st.session_data[1].current_certificate_level,
                preferred_wing |-> st.session_data[1].preferred_wing] >>]

\* json.load creates new objects; session_data names them under the keys
\* that the blob has
_load_persistent_data(st) ==
    IF st.user_file = <<>>
    THEN st
    ELSE LET persistent_data == st.user_file[1]
             present == {key \in LoadedKeys : key \in DOMAIN persistent_data}
         IN  [st EXCEPT
                !.objects = [r \in DOMAIN st.objects \cup {LoadedRef(key) : key \in present} |->
                                IF r[1] = "loaded" /\ r[2] \in present
                                THEN persistent_data[r[2]]
                                ELSE st.objects[r]],
                !.session_data[1] = [f \in DOMAIN st.session_data[1] |->
                                        IF f \in present THEN LoadedRef(f)
                                        ELSE st.session_data[1][f]]]

\* the defaults of quiz_state, chat_state and study_state
PageStateDefaults ==
    [quiz_state |-> [current_quiz |-> "None", current_question |-> 0, answers |-> <<>>,
                     start_time |-> NoneStamp, quiz_type |-> "mixed"],
     chat_state |-> [conversation_history |-> <<>>, context |-> "", last_query |-> ""],
     study_state |-> [current_topic |-> "None", study_start_time |-> NoneStamp,
                      daily_progress |-> 0]]

_initialize_page_states(st) ==
    [st EXCEPT !.page_states =
        [state_name \in DOMAIN PageStateDefaults |->
            IF state_name \in DOMAIN st.page_states THEN st.page_states[state_name]
            ELSE PageStateDefaults[state_name]]]

\* default_session.copy() is a shallow copy: the copy names the lists and
\* dicts of default_session
initialize_session(st, t) ==
    LET s1 == IF st.user_id = NoUser THEN [st EXCEPT !.user_id = uuid4] ELSE st
        s2 == IF s1.session_data = <<>>
              THEN [s1 EXCEPT !.session_data =
                        << [default_session EXCEPT !.user_id = s1.user_id,
                                                   !.session_start = t] >>]
              ELSE s1
        s3 == [s2 EXCEPT !.session_data[1].last_activity = t]
    IN  _initialize_page_states(_load_persistent_data(s3))

\* the number of the most recent recorded days, without a gap, that reach the goal
_update_study_streak(st) ==
    LET preferences == Value(st, "preferences")
        daily_progress == IF st.session_data[1].daily_progress = <<>> THEN EmptyDict
                          ELSE st.session_data[1].daily_progress[1]
    IN  IF "daily_goal_minutes" \notin DOMAIN preferences
        THEN st
        ELSE LET daily_goal == preferences.daily_goal_minutes
                 current_streak ==
                    Cardinality({d \in DOMAIN daily_progress :
                                    \A e \in DOMAIN daily_progress :
                                        e >= d => daily_progress[e] >= daily_goal})
                 progress == Value(st, "progress")
             IN  SetValue(st, "progress",
                    [progress EXCEPT
                        !.current_streak = current_streak,
                        !.longest_streak = IF current_streak > @ THEN current_streak ELSE @])

_update_daily_progress(st, minutes, t) ==
    LET today == Date(t)
        daily_progress == IF st.session_data[1].daily_progress = <<>> THEN EmptyDict
                          ELSE st.session_data[1].daily_progress[1]
        before == IF today \in DOMAIN daily_progress THEN daily_progress[today] ELSE 0
    IN  _update_study_streak(
            [st EXCEPT !.session_data[1].daily_progress =
                            << DictPut(daily_progress, today, before + minutes) >>])

\* the achievements in the order of achievement_criteria
AchievementIds ==
    <<"first_quiz", "quiz_master", "curious_cadet", "study_streak_7", "high_scorer">>

\* criteria[...]['condition'], computed before any achievement is awarded
AchievementCondition(st, achievement_id) ==
    CASE achievement_id = "first_quiz" -> st.session_data[1].quizzes_taken >= 1
      [] achievement_id = "quiz_master" -> st.session_data[1].quizzes_taken >= 10
      [] achievement_id = "curious_cadet" -> st.session_data[1].questions_asked >= 25
      [] achievement_id = "study_streak_7" -> Value(st, "progress").current_streak >= 7
      [] achievement_id = "high_scorer" ->
            \E i \in DOMAIN Value(st, "quiz_scores") : Value(st, "quiz_scores")[i].score >= 90

\* the test of the earned achievements on the last one only
AlreadyEarnedLast(achievements, achievement_id) ==
    achievements # <<>> /\ achievements[Len(achievements)].id = achievement_id

\* any(ach['id'] == achievement_id for ach in achievements)
AlreadyEarned(achievements, achievement_id) ==
    \E i \in DOMAIN achievements : achievements[i].id = achievement_id

\* the loop over achievement_criteria from its i-th entry; an achievement is a
\* record of id and earned_at (title and description are fixed by the id)
RECURSIVE AwardFrom(_, _, _, _)
AwardFrom(st, achievements, i, t) ==
    IF i > Len(AchievementIds)
    THEN achievements
    ELSE AwardFrom(st,
                   IF ~AlreadyEarned(achievements, AchievementIds[i])
                        /\ AchievementCondition(st, AchievementIds[i])
                   THEN Append(achievements, [id |-> AchievementIds[i], earned_at |-> t])
                   ELSE achievements,
                   i + 1, t)

_check_achievements(st, t) ==
    SetValue(st, "achievements", AwardFrom(st, Value(st, "achievements"), 1, t))

\* details.get(key, default)
DetailsGet(details, key, default) ==
    IF key \in DOMAIN details[1] THEN details[1][key] ELSE default

\* the counters of the activity: <<>> when the branch raises (details is None)
ActivityCounters(st, activity_type, details, t) ==
    CASE activity_type = "question_asked" ->
            << [st EXCEPT !.session_data[1].questions_asked = @ + 1] >>
      [] activity_type = "quiz_completed" ->
            LET s1 == [st EXCEPT !.session_data[1].quizzes_taken = @ + 1]
            IN  IF details # <<>> /\ "score" \in DOMAIN details[1]
                THEN << SetValue(s1, "quiz_scores",
                            Append(Value(s1, "quiz_scores"),
                                   [score |-> details[1].score,
                                    timestamp |-> t,
                                    topic |-> DetailsGet(details, "topic", "mixed"),
                                    difficulty |-> DetailsGet(details, "difficulty", "medium")])) >>
                ELSE << s1 >>
      [] activity_type = "topic_studied" ->
            IF details = <<>> THEN <<>>
            ELSE LET topic == DetailsGet(details, "topic", "unknown")
                     topics_studied == Value(st, "topics_studied")
                 IN  IF \E i \in DOMAIN topics_studied : topics_studied[i] = topic
                     THEN << st >>
                     ELSE << SetValue(st, "topics_studied", Append(topics_studied, topic)) >>
      [] activity_type = "study_session" ->
            IF details = <<>> THEN <<>>
            ELSE LET duration == DetailsGet(details, "duration_minutes", 0)
                 IN  << _update_daily_progress(
                            [st EXCEPT !.session_data[1].total_study_time = @ + duration],
                            duration, t) >>
      [] OTHER -> << st >>

update_activity(st, activity_type, details, t) ==
    IF st.session_data = <<>>
    THEN st
    ELSE LET s1 == [st EXCEPT !.session_data[1].last_activity = t]
         IN  \* LET over a set: the counters are computed once
             IF ActivityCounters(s1, activity_type, details, t) = <<>>
             THEN s1
             ELSE LET s2 == _check_achievements(
                                ActivityCounters(s1, activity_type, details, t)[1], t)
                  IN  IF s2.session_data[1].questions_asked % 5 = 0
                      THEN save_progress(s2, t)
                      ELSE s2

reset_progress(st, reset_type, t) ==
    IF reset_type = "complete"
    THEN LET s1 == [st EXCEPT !.session_data = << default_session >>]
         IN  IF st.user_id = NoUser
             THEN s1
             ELSE save_progress([s1 EXCEPT !.session_data[1].user_id = st.user_id], t)
    ELSE IF st.session_data = <<>>
         THEN st
         ELSE LET preferences == st.session_data[1].preferences
                  achievements == st.session_data[1].achievements
                  s1 == [st EXCEPT !.session_data = << default_session >>]
              IN  IF st.user_id = NoUser
                  THEN s1
                  ELSE save_progress(
                          [s1 EXCEPT !.session_data[1].user_id = st.user_id,
                                     !.session_data[1].preferences = preferences,
                                     !.session_data[1].achievements = achievements],
                          t)

(***************************************************************************)
(* SessionManager as a state machine: one SessionManager, one Streamlit    *)
(* session, the calls of its methods in any order.                         *)
(***************************************************************************)
MaxDay == 1
MaxAsked == 1
MaxQuizzes == 1
MaxStudy == 30

\* what update_activity is called with: the activity type and details (<<>> for None)
ActivityInputs ==
    {<<"question_asked", <<>>>>,
     <<"quiz_completed", <<[score |-> 90, topic |-> "drill"]>>>>,
     <<"topic_studied", <<>>>>,
     <<"topic_studied", <<[topic |-> "drill"]>>>>,
     <<"study_session", <<[duration_minutes |-> 30]>>>>}

\* a blob that something else than save_progress left in the file of the
\* user: it lacks the keys quiz_scores, achievements, progress and study_goals
StoredBlobs ==
    {[user_id |-> uuid4, topics_studied |-> <<"map">>,
      preferences |-> [DefaultValue("preferences") EXCEPT !.difficulty_level = "easy"]]}

World ==
    [user_id |-> user_id, session_data |-> session_data, objects |-> objects,
     user_file |-> user_file, page_states |-> page_states]

\* the objects that a name still reaches: those of default_session and those
\* of session_data
Reachable(st) ==
    {DefaultRef(key) : key \in ObjectKeys} \cup
    (IF st.session_data = <<>> THEN {}
     ELSE {st.session_data[1][key] : key \in ObjectKeys})

Commit(st) ==
    /\ user_id' = st.user_id
    /\ session_data' = st.session_data
    /\ objects' = [r \in Reachable(st) |-> st.objects[r]]
    /\ user_file' = st.user_file
    /\ page_states' = st.page_states

SessionInit ==
    /\ ParseIdle
    /\ PagesIdle
    /\ SessionIdle

InitializeSession ==
    /\ Commit(initialize_session(World, now))
    /\ UNCHANGED <<parseVars, sharedVars, pageVars, qiVars>>

\* the counters and the study time stay within the bounds
ActivityInBounds(activity_type, details) ==
    session_data # <<>> =>
        CASE activity_type = "question_asked" -> session_data[1].questions_asked < MaxAsked
          [] activity_type = "quiz_completed" ->
                /\ session_data[1].quizzes_taken < MaxQuizzes
                /\ Len(Value(World, "quiz_scores")) < MaxQuizzes
          [] activity_type = "study_session" ->
                details # <<>> =>
                    session_data[1].total_study_time + details[1].duration_minutes <= MaxStudy
          [] OTHER -> TRUE

UpdateActivity(activity_type, details) ==
    /\ ActivityInBounds(activity_type, details)
    /\ Commit(update_activity(World, activity_type, details, now))
    /\ UNCHANGED <<parseVars, sharedVars, pageVars, qiVars>>

SaveProgress ==
    /\ Commit(save_progress(World, now))
    /\ UNCHANGED <<parseVars, sharedVars, pageVars, qiVars>>

ResetProgress(reset_type) ==
    /\ Commit(reset_progress(World, reset_type, now))
    /\ UNCHANGED <<parseVars, sharedVars, pageVars, qiVars>>

\* the file of the user is replaced from outside the program
FileStored(blob) ==
    /\ user_id # NoUser
    /\ user_file' = << blob >>
    /\ UNCHANGED <<user_id, session_data, objects, page_states>>
    /\ UNCHANGED <<parseVars, sharedVars, pageVars, qiVars>>

\* midnight passes
NextDay ==
    /\ Date(now) < MaxDay
    /\ now' = (Date(now) + 1) * MinutesPerDay
    /\ UNCHANGED <<impl, view, view_idx, rerun, request, called, invoked_at>>
    /\ UNCHANGED <<parseVars, pageVars, qiVars, smVars>>

SessionNext ==
    \/ InitializeSession
    \/ \E input \in ActivityInputs : UpdateActivity(input[1], input[2])
    \/ SaveProgress
    \/ \E reset_type \in {"complete", "partial"} : ResetProgress(reset_type)
    \/ \E blob \in StoredBlobs : FileStored(blob)
    \/ NextDay

SessionSpec == SessionInit /\ [][SessionNext]_vars

(***************************************************************************)
(* The claims on finishing, generating, resetting and answering            *)
(***************************************************************************)
\* the index of the last question of the quiz in the session state
LastIndex == Len(SessionQuestions) - 1

\* C11: Finish is available at every index of a quiz in progress: whenever a
\* question is rendered, the Finish Quiz button is rendered with it.
C11_FinishAtAnyIndex ==
    (view = "question" /\ ~rerun) => FinishRendered

\* C11 as the code has it: the Finish Quiz button is rendered with the last
\* question and with no other; a Finish request on another question submits
\* nothing; on the last question it is submitted whether or not answers are
\* recorded.
C11_FinishOnLastOnly ==
    /\ []((view = "question" /\ ~rerun) => (FinishRendered <=> view_idx = LastIndex))
    /\ [][(\E sel \in Selections : Finish(sel)) =>
             IF view_idx = LastIndex THEN request' = "finish" ELSE UNCHANGED vars]_vars

\* C11 witness: the last question of a quiz of the page with several
\* questions is rendered with the Finish Quiz button while its answer is not
\* recorded
C11_Witness ==
    /\ impl = "page"
    /\ view = "question"
    /\ ~rerun
    /\ Len(quiz_questions) >= 2
    /\ FinishRendered
    /\ view_idx \notin DOMAIN user_answers

\* the valid questions parsed from a response text by the page in use
ParsedQuestions(text) ==
    (CHOOSE p \in (IF impl = "page" THEN PageParsed ELSE QIParsed) : p.text = text).questions

\* the external model was called for a generation request and its response
\* holds at least one valid question
SuccessfulGeneration(outcome) ==
    /\ request' = "generate"
    /\ called'
    /\ outcome.kind = "ok"
    /\ ParsedQuestions(outcome.text) # <<>>

\* the quiz is in progress at index 0 with the questions qs, no recorded
\* answer, not submitted and not completed
StartedWith(qs) ==
    IF impl = "page"
    THEN /\ quiz_questions = qs
         /\ current_question = 0
         /\ user_answers = <<>>
         /\ ~quiz_submitted
         /\ ~quiz_completed
    ELSE /\ quiz_session # <<>>
         /\ quiz_session[1].questions = qs
         /\ quiz_session[1].current_question_idx = 0
         /\ quiz_session[1].user_answers = <<>>
         /\ quiz_session[1].end_time = NoTime
         /\ ~_has_completed_quiz

NotStarted ==
    IF impl = "page"
    THEN /\ quiz_questions = <<>>
         /\ user_answers = <<>>
         /\ current_question = 0
         /\ quiz_topic = <<>>
         /\ ~quiz_submitted
         /\ ~quiz_completed
    ELSE quiz_session = <<>> /\ qi_quiz_results = <<>>

\* C13: a reset requested in any quiz state (New Quiz, Restart, Take Another
\* Quiz) clears the questions, the recorded answers, the index and the topic,
\* and the script run that follows shows the quiz-creation form (the setup
\* form of QuizInterface when it runs without a model client).
C13_ResetClears ==
    [][/\ (\E sel \in Selections : NewQuiz(sel)) => NotStarted' /\ rerun'
       /\ (request = "new_quiz" /\ rerun /\ RerunPass) => view' \in {"creation", "setup"}]_vars

\* the recorded answers of the quiz in the session state
AnswersOf ==
    IF impl = "page" THEN user_answers
    ELSE IF quiz_session # <<>> THEN quiz_session[1].user_answers ELSE <<>>

\* InProgress: a quiz exists and is neither submitted nor completed; for
\* QuizInterface this is _is_quiz_active, the test of render
InProgress ==
    IF impl = "page" THEN quiz_questions # <<>> /\ ~quiz_submitted /\ ~quiz_completed
    ELSE _is_quiz_active

\* a step that records an answer of the quiz in progress
RecordingStep ==
    /\ InProgress
    /\ SessionQuestions' = SessionQuestions
    /\ AnswersOf' # AnswersOf

\* C14: recording an answer sets answers[current_index] to a letter and
\* changes no other answer and not the questions; a script run that only
\* records (no button clicked) leaves current_index as it is; and the quiz is
\* still in progress afterwards, unless Finish was requested.
C14_AnswerKeepsInProgress ==
    [][RecordingStep =>
          /\ \E x \in OptionLetters : AnswersOf' = DictPut(AnswersOf, CurrentIndex, <<x>>)
          /\ (Refresh \/ RerunPass) => CurrentIndex' = CurrentIndex
          /\ ~(\E sel \in Selections : Finish(sel)) => InProgress']_vars

\* the recorded timestamp of the last call, and the cooldown, of the page in use
LastCall == IF impl = "page" THEN last_api_call ELSE last_quiz_generation

Cooldown == IF impl = "page" THEN cooldown_minutes ELSE rate_limit_minutes

\* C15: a generation request made while the time since the recorded
\* timestamp is below the cooldown calls no external model and leaves the quiz
\* state and the timestamp as they were; a request with no timestamp, or with
\* at least the cooldown elapsed, is permitted: the model is called (when the
\* page has one and the topic is not blank).
C15_Cooldown ==
    [][\A topic \in TopicInputs :
       \A outcome \in Outcomes(IF impl = "page" THEN PageResponses ELSE QIResponses) :
       \A num_questions \in min_questions_per_quiz..MaxNumQuestions :
           (Generate(topic, outcome, num_questions) /\ request' = "generate") =>
               IF LastCall # NoTime /\ now - LastCall < Cooldown
               THEN ~called' /\ UNCHANGED QuizState /\ LastCall' = LastCall
               ELSE (Strip(topic) # <<>> /\ (impl = "page" => model)) => called']_vars

\* C15 witness: QuizInterface rejected a generation request, within the
\* cooldown of a recorded timestamp, without calling the model
C15_Witness ==
    /\ impl = "qi"
    /\ request = "generate"
    /\ view = "creation"
    /\ ~called
    /\ last_quiz_generation # NoTime
    /\ now - last_quiz_generation < rate_limit_minutes
    /\ quiz_session = <<>>

\* C16: a generation request whose external model call fails starts no quiz:
\* the quiz state is left as it was and no rerun into a quiz is scheduled.
C16_FailedCallStartsNoQuiz ==
    [][\A topic \in TopicInputs :
       \A outcome \in Outcomes(IF impl = "page" THEN PageResponses ELSE QIResponses) :
       \A num_questions \in min_questions_per_quiz..MaxNumQuestions :
           (/\ Generate(topic, outcome, num_questions)
            /\ request' = "generate"
            /\ called'
            /\ outcome.kind = "raise") => (UNCHANGED QuizState /\ ~rerun')]_vars

\* C17: a generation request with a topic that is empty after trimming
\* builds no prompt and calls no external model: either nothing is submitted
\* (the button is disabled), or the run rejects the topic; the quiz state and
\* the recorded timestamp are left as they were.
C17_BlankTopicNoCall ==
    [][\A topic \in TopicInputs :
       \A outcome \in Outcomes(IF impl = "page" THEN PageResponses ELSE QIResponses) :
       \A num_questions \in min_questions_per_quiz..MaxNumQuestions :
           (Generate(topic, outcome, num_questions) /\ Strip(topic) = <<>>) =>
               /\ UNCHANGED vars \/ (request' = "generate" /\ ~called' /\ ~rerun')
               /\ UNCHANGED QuizState
               /\ LastCall' = LastCall]_vars

\* C17 witness: the page has a model and no recorded timestamp, so that a
\* request with a topic is passed on to the model; the run of a generation
\* request called no model: its topic was blank
C17_Witness ==
    /\ impl = "page"
    /\ model
    /\ last_api_call = NoTime
    /\ request = "generate"
    /\ view = "creation"
    /\ ~called
    /\ ~rerun

(***************************************************************************)
(* The claims on results, cooldown and dead ends                           *)
(***************************************************************************)
\* C22: in QuizInterface, in every reachable state in which the quiz counts
\* as completed (_has_completed_quiz, so that render selects the results
\* view), st.session_state.quiz_results is not None.
C22_CompletedHasResults ==
    (impl = "qi" /\ _has_completed_quiz) => qi_quiz_results # <<>>

\* a generation request that was submitted and called the external model
Invokes(topic, outcome, num_questions) ==
    /\ Generate(topic, outcome, num_questions)
    /\ (IF impl = "page" THEN topic # <<>> ELSE TopicGiven(topic))
    /\ called'

\* C27: any two calls of the external model made by quiz generation are
\* separated by at least the cooldown (2 minutes for the page, 1 minute for
\* QuizInterface): a generation request calls the model only when no earlier
\* call was made, or when the earlier call, whatever its outcome was, lies at
\* least the cooldown back.
C27_InvocationsSeparated ==
    [][\A topic \in TopicInputs :
       \A outcome \in Outcomes(IF impl = "page" THEN PageResponses ELSE QIResponses) :
       \A num_questions \in min_questions_per_quiz..MaxNumQuestions :
           Invokes(topic, outcome, num_questions)
               => (invoked_at = NoTime \/ now - invoked_at >= Cooldown)]_vars

\* a click on the New Quiz button whose script run empties the quiz, so that
\* the run it schedules shows the quiz-creation form
BackToForm ==
    \E sel \in Selections : NewQuiz(sel) /\ quiz_questions' = <<>> /\ rerun'

\* C28: the function-based page has no dead end: in every reachable state
\* that a script run has rendered, the state after Finish Quiz included, the
\* quiz-creation form is shown or a user action leads back to it.
C28_NoDeadEnd ==
    (impl = "page" /\ ~rerun) => (view = "creation" \/ ENABLED BackToForm)

\* a generation request would be permitted by the rate limiter of the page
\* in use
Permitted == IF impl = "page" THEN can_make_api_call ELSE _can_generate_quiz

\* a click whose script run called reset_quiz (the page) or _restart_quiz
\* (QuizInterface)
ResetStep ==
    /\ \E sel \in Selections : NewQuiz(sel)
    /\ rerun'
    /\ IF impl = "page" THEN quiz_questions' = <<>> ELSE quiz_session' = <<>>

\* C29: resetting or restarting the quiz leaves the last-call timestamp of the
\* rate limiter unchanged, so a generation request is permitted after the
\* reset exactly when it was permitted before it.
C29_ResetKeepsTimestamp ==
    [][ResetStep => (LastCall' = LastCall /\ Permitted' = Permitted)]_vars

\* C29 witness: a quiz was reset while its generation was still inside the
\* cooldown, and a generation request is still rejected
C29_Witness ==
    /\ request = "new_quiz"
    /\ rerun
    /\ IF impl = "page" THEN quiz_questions = <<>> ELSE quiz_session = <<>>
    /\ LastCall # NoTime
    /\ ~Permitted

(***************************************************************************)
(* Scoring as a state machine: a quiz of up to MaxQuizLen questions with   *)
(* the answer key A, B, C, D, A, ... and some recorded answers is drawn,   *)
(* and the scoring function of either page is applied to it.               *)
(***************************************************************************)
MaxQuizLen == 5

KeyLetters == <<"A", "B", "C", "D">>

AnswerKeyAt(i) == KeyLetters[((i - 1) % 4) + 1]

\* the question i of the quiz as the page holds it, and as QuizInterface does
ScorePageQuestion(i) ==
    [question |-> <<"q">>,
     options |-> << [key |-> "A", val |-> <<"a">>], [key |-> "B", val |-> <<"b">>],
                    [key |-> "C", val |-> <<"c">>], [key |-> "D", val |-> <<"d">>] >>,
     answer |-> << AnswerKeyAt(i) >>,
     explanation |-> <<>>]

ScoreQIQuestion(i) == Question(<<"q">>, <<"a">>, <<"b">>, <<"c">>, <<"d">>, AnswerKeyAt(i))

\* a recorded answer: two of the option keys, and a letter that is no key
UserLetters == { <<"A">>, <<"B">>, <<"X">> }

\* the answers recorded for some of the n questions
ScoreAnswers(n) == UNION { [D -> UserLetters] : D \in SUBSET (0..(n - 1)) }

ScoreInit ==
    /\ ParseIdle
    /\ SessionIdle
    /\ impl = "score"
    /\ now = 0
    /\ view = "none"
    /\ view_idx = -1
    /\ rerun = FALSE
    /\ request = "none"
    /\ called = FALSE
    /\ invoked_at = NoTime
    /\ model = FALSE
    /\ current_question = 0
    /\ quiz_submitted = FALSE
    /\ quiz_completed = FALSE
    /\ quiz_topic = <<"d">>
    /\ quiz_score = 0
    /\ quiz_results = <<>>
    /\ last_api_call = NoTime
    /\ gemini_client = FALSE
    /\ qi_quiz_results = <<>>
    /\ last_quiz_generation = NoTime
    /\ quiz_history = <<>>
    /\ \E n \in 1..MaxQuizLen : \E answers \in ScoreAnswers(n) :
          /\ quiz_questions = [i \in 1..n |-> ScorePageQuestion(i)]
          /\ user_answers = answers
          /\ quiz_session =
                << [QuizSession([i \in 1..n |-> ScoreQIQuestion(i)], <<"d">>)
                       EXCEPT !.user_answers = answers] >>

\* calculate_and_show_results on the quiz of the page
ScorePage ==
    /\ ~quiz_completed
    /\ calculate_and_show_results
    /\ UNCHANGED <<parseVars, smVars, sharedVars, qiVars>>

\* _complete_quiz on the session of QuizInterface
ScoreQI ==
    /\ quiz_session # <<>>
    /\ _complete_quiz(quiz_session[1])
    /\ UNCHANGED <<parseVars, smVars, sharedVars, pageVars, gemini_client, last_quiz_generation>>

ScoreNext == ScorePage \/ ScoreQI

ScoreSpec == ScoreInit /\ [][ScoreNext]_vars

\* the number of indices i with answers.get(i) equal to the answer of question i
CorrectIndices(answer_key, answers) ==
    Cardinality({i \in 0..(Len(answer_key) - 1) :
                    i \in DOMAIN answers /\ answers[i] = answer_key[i + 1]})

\* the fraction p is 100 * c / n
IsPercentage(p, c, n) == p.den # 0 /\ p.num * n = 100 * c * p.den

\* C9: the results that scoring stores have correct_count equal to the number
\* of indices whose recorded answer is the answer of the question, and
\* score_percentage equal to 100 * correct_count / len(questions): a question
\* without an answer or with an answer that is no option key is not correct
\* and is counted in the denominator.
C9_Scoring ==
    [][/\ quiz_results' # quiz_results =>
             LET answer_key == [i \in 1..Len(quiz_questions) |-> quiz_questions[i].answer]
                 c == CorrectIndices(answer_key, user_answers)
                 r == quiz_results'[1]
             IN  /\ r.correct_count = c
                 /\ r.total_questions = Len(quiz_questions)
                 /\ IsPercentage(r.score_percentage, c, Len(quiz_questions))
       /\ qi_quiz_results' # qi_quiz_results =>
             LET session == quiz_session[1]
                 answer_key == [i \in 1..Len(session.questions) |->
                                   session.questions[i].correct_answer]
                 c == CorrectIndices(answer_key, session.user_answers)
                 r == qi_quiz_results'[1]
             IN  /\ r.correct_answers = c
                 /\ r.total_questions = Len(session.questions)
                 /\ IsPercentage(r.score_percentage, c, Len(session.questions))]_vars

\* C9 witness: 5 questions with the answers A, B, C, D, A and the recorded
\* answers 0: A, 1: B, 2: X, 4: A are scored by both pages: 3 correct, 60
\* percent
C9_Witness ==
    /\ Len(quiz_questions) = 5
    /\ user_answers = (0 :> <<"A">> @@ 1 :> <<"B">> @@ 2 :> <<"X">> @@ 4 :> <<"A">>)
    /\ quiz_results # <<>>
    /\ quiz_results[1].correct_count = 3
    /\ quiz_results[1].score_percentage.num = 60 * quiz_results[1].score_percentage.den
    /\ qi_quiz_results # <<>>
    /\ qi_quiz_results[1].correct_answers = 3
    /\ qi_quiz_results[1].total_questions = 5
    /\ qi_quiz_results[1].score_percentage.num = 60 * qi_quiz_results[1].score_percentage.den
    /\ qi_quiz_results[1].detailed_results[3].user_answer = <<"X">>
    /\ qi_quiz_results[1].detailed_results[4].user_answer = <<>>

(***************************************************************************)
(* The claims on SessionManager                                            *)
(***************************************************************************)
\* session_data with the values of its lists and dicts in place of the references
SessionValues(st) ==
    [f \in DOMAIN st.session_data[1] |->
        IF f \in ObjectKeys THEN Value(st, f) ELSE st.session_data[1][f]]

\* the defaults of __init__
DefaultValues ==
    [f \in DOMAIN default_session |->
        IF f \in ObjectKeys THEN DefaultValue(f) ELSE default_session[f]]

\* session_data of st equals the defaults on every key but those of kept
DefaultsExcept(st, kept) ==
    /\ st.session_data # <<>>
    /\ \A f \in (DOMAIN default_session) \ kept : SessionValues(st)[f] = DefaultValues[f]

\* C19: after reset_progress('complete') session_data equals the defaults
\* except user_id, whatever update_activity recorded before on the same
\* SessionManager; after reset_progress('partial') it equals the defaults
\* except user_id and the preferences and achievements, which are the
\* previous ones.
C19_ResetProgress ==
    [][/\ (user_id # NoUser /\ ResetProgress("complete")) =>
            DefaultsExcept(World', {"user_id"})
       /\ (user_id # NoUser /\ session_data # <<>> /\ ResetProgress("partial")) =>
            /\ DefaultsExcept(World', {"user_id", "preferences", "achievements"})
            /\ Value(World', "preferences") = Value(World, "preferences")
            /\ Value(World', "achievements") = Value(World, "achievements")]_vars

\* the keys of save_data
SavedKeys ==
    {"user_id", "last_saved", "quiz_scores", "topics_studied", "achievements", "preferences",
     "progress", "study_goals", "total_study_time", "daily_progress",
     "current_certificate_level", "preferred_wing"}

\* the keys the claim names
PersistedKeys ==
    {"quiz_scores", "topics_studied", "achievements", "preferences", "progress", "study_goals"}

\* the value in memory under the key before initialize_session loads the file
InMemory(key) ==
    IF session_data = <<>> THEN objects[DefaultRef(key)] ELSE Value(World, key)

\* C20: save_progress overwrites the file of the user with a blob that holds
\* the values of quiz_scores, topics_studied, achievements, preferences,
\* progress and study_goals of session_data; _load_persistent_data (the load
\* of initialize_session) sets each of these keys that the stored blob has to
\* the stored value and leaves the value of a key that the blob lacks as it
\* was in memory.
C20_PersistenceRoundTrip ==
    [][/\ (session_data # <<>> /\ user_id # NoUser /\ SaveProgress) =>
            /\ user_file' # <<>>
            /\ DOMAIN user_file'[1] = SavedKeys
            /\ \A key \in PersistedKeys : user_file'[1][key] = Value(World, key)
       /\ (user_file # <<>> /\ InitializeSession) =>
            /\ user_file' = user_file
            /\ \A key \in PersistedKeys :
                    Value(World', key) =
                        IF key \in DOMAIN user_file[1] THEN user_file[1][key]
                        ELSE InMemory(key)]_vars

\* a file that save_progress wrote with a score, a topic and achievements was
\* loaded: session_data names the loaded objects and they hold the saved values
C20_Witness ==
    /\ session_data # <<>>
    /\ user_file # <<>>
    /\ "last_saved" \in DOMAIN user_file[1]
    /\ \A key \in PersistedKeys :
          /\ session_data[1][key] = LoadedRef(key)
          /\ Value(World, key) = user_file[1][key]
    /\ Value(World, "quiz_scores") # <<>>
    /\ Value(World, "topics_studied") # <<>>
    /\ Value(World, "achievements") # <<>>

\* no two entries of the list have the same id
DistinctIds(achievements) ==
    \A i, j \in DOMAIN achievements :
        achievements[i].id = achievements[j].id => i = j

\* C30: after any sequence of update_activity calls every achievements list
\* (that of session_data and that of default_session) holds each achievement
\* id at most once: an achievement already earned is not awarded again.
C30_AchievementsOnce ==
    \A r \in DOMAIN objects : r[2] = "achievements" => DistinctIds(objects[r])

\* C30 witness: first_quiz was earned on day 0, update_activity recorded a
\* study session on day 1 while the condition of first_quiz still held, and
\* the list holds first_quiz once
C30_Witness ==
    /\ session_data # <<>>
    /\ session_data[1].quizzes_taken >= 1
    /\ \E i \in DOMAIN Value(World, "achievements") :
          /\ Value(World, "achievements")[i].id = "first_quiz"
          /\ Date(Value(World, "achievements")[i].earned_at) = 0
    /\ session_data[1].daily_progress # <<>>
    /\ 1 \in DOMAIN session_data[1].daily_progress[1]

====
